---- MODULE Spec2Model ----
(***************************************************************************)
(* A model of the ExclusionApp engine: the reference cache builder        *)
(* (engine/reference_cache.py), the person and entity matchers            *)
(* (engine/matcher_people.py, engine/matcher_entity.py), the vendor       *)
(* classifier (engine/vendor_classifier.py) and the screening run         *)
(* (engine/runner.py, engine/history.py).                                 *)
(*                                                                         *)
(* Text is modelled as a sequence of one-character strings, so that the   *)
(* similarity score, upper-casing and stripping are computed character by *)
(* character as the code computes them.  Python's None and the empty      *)
(* string are both the empty sequence: the code only tests them for       *)
(* truthiness, and compares two values only after both were found truthy  *)
(* or against a truthy one.                                               *)
(***************************************************************************)
EXTENDS Integers, Sequences, FiniteSets, TLC

VARIABLES
    fs,        \* the cache directory: month -> NoFile or the committed database
    pc,        \* per process: the position inside build_reference_cache / run_exclusion_check
    call,      \* per process: the arguments of the call in progress (or of the last call)
    txn,       \* per process: the rows inserted on its connection and not yet committed
    outcome,   \* per process: how its last call ended
    conn,      \* matcher: the snapshot the connection reads
    mq,        \* matcher: the query record of the call in progress
    result,    \* matcher: the result dictionary being filled
    rows,      \* matcher: the rows fetched by the current SELECT and not yet scanned
    mpc,       \* matcher: the position inside match_person / match_entity
    run,       \* per process: the locals of run_exclusion_check (results, what was read)
    runs       \* the runs directory of the client: month -> the files of the run directory

vars == <<fs, pc, call, txn, outcome, conn, mq, result, rows, mpc, run, runs>>

buildVars == <<fs, pc, call, txn, outcome>>
matchVars == <<conn, mq, result, rows, mpc>>
runVars == <<run, runs>>

-----------------------------------------------------------------------------
(* Bounds *)

\* rows of the table a family of snapshots varies
MaxRows == 2

\* rows of a registry extract handed to a build
MaxExtractRows == 1

\* lines of run_log.txt past which no further run of the month is started
MaxLogLines == 1

\* rows of an input table handed to a run
MaxInputRows == 1

\* characters of a zip code handed to normalize_zip
MaxZipLen == 6

-----------------------------------------------------------------------------
(* Text *)

None == <<>>

Truthy(s) == s # <<>>

LowerChars == <<"a","b","c","d","e","f","g","h","i","j","k","l","m",
                "n","o","p","q","r","s","t","u","v","w","x","y","z">>
UpperChars == <<"A","B","C","D","E","F","G","H","I","J","K","L","M",
                "N","O","P","Q","R","S","T","U","V","W","X","Y","Z">>

UpperChar(c) ==
    IF \E i \in 1..26 : LowerChars[i] = c
    THEN UpperChars[CHOOSE i \in 1..26 : LowerChars[i] = c]
    ELSE c

\* str.upper()
Upper(s) == [i \in 1..Len(s) |-> UpperChar(s[i])]

Whitespace == {" ", "\t", "\n"}

RECURSIVE LStrip(_)
LStrip(s) == IF s # <<>> /\ Head(s) \in Whitespace THEN LStrip(Tail(s)) ELSE s

RECURSIVE RStrip(_)
RStrip(s) ==
    IF s # <<>> /\ s[Len(s)] \in Whitespace
    THEN RStrip(SubSeq(s, 1, Len(s) - 1))
    ELSE s

\* str.strip()
Strip(s) == RStrip(LStrip(s))

Max(a, b) == IF a >= b THEN a ELSE b

\* one row of the longest-common-subsequence table: prev is the row of the
\* previous character of the first string, acc the cells of this row so far
RECURSIVE LcsRow(_, _, _, _)
LcsRow(prev, ch, b, acc) ==
    IF Len(acc) = Len(b) + 1
    THEN acc
    ELSE LET j == Len(acc)
         IN  LcsRow(prev, ch, b,
                    Append(acc, IF b[j] = ch
                                THEN prev[j] + 1
                                ELSE Max(prev[j + 1], acc[j])))

RECURSIVE LcsFrom(_, _, _)
LcsFrom(a, b, prev) ==
    IF a = <<>>
    THEN prev[Len(b) + 1]
    ELSE LET row == LcsRow(prev, Head(a), b, <<0>>)
         IN  \* a row has Len(b) + 1 entries; the test has it computed before
             \* the next row is started
             IF row = <<>> THEN 0 ELSE LcsFrom(Tail(a), b, row)

\* the length of a longest common subsequence; a common prefix is counted
\* and removed first, the rest goes through the table
RECURSIVE Lcs(_, _)
Lcs(a, b) ==
    IF a = <<>> \/ b = <<>>
    THEN 0
    ELSE IF Head(a) = Head(b)
    THEN 1 + Lcs(Tail(a), Tail(b))
    ELSE LcsFrom(a, b, [j \in 1..(Len(b) + 1) |-> 0])

\* rapidfuzz.fuzz.ratio: the normalized Indel similarity
\* 100 * (1 - (len1 + len2 - 2*lcs) / (len1 + len2)), and 100 for two empty
\* strings.  The score is kept as its integer part: the code compares it
\* with integer thresholds only, and floor(x) >= t iff x >= t.
ratio(a, b) ==
    IF Len(a) + Len(b) = 0
    THEN 100
    ELSE (200 * Lcs(a, b)) \div (Len(a) + Len(b))

-----------------------------------------------------------------------------
(* engine/normalizer.py *)

DigitChars == <<"0","1","2","3","4","5","6","7","8","9">>

IsDigit(c) == \E i \in 1..10 : DigitChars[i] = c

IsLetter(c) == \E i \in 1..26 : LowerChars[i] = c \/ UpperChars[i] = c

\* \w of the regular expressions
IsWordChar(c) == IsLetter(c) \/ IsDigit(c) \/ c = "_"

\* what re.sub(r"[^\w\s]", "", value) keeps
IsWordOrSpace(c) == IsWordChar(c) \/ c \in Whitespace

\* str.split(): the maximal runs of non-whitespace characters; cur is the
\* token being read
RECURSIVE SplitFrom(_, _)
SplitFrom(s, cur) ==
    IF s = <<>>
    THEN IF cur = <<>> THEN <<>> ELSE <<cur>>
    ELSE IF Head(s) \in Whitespace
         THEN IF cur = <<>>
              THEN SplitFrom(Tail(s), <<>>)
              ELSE <<cur>> \o SplitFrom(Tail(s), <<>>)
         ELSE SplitFrom(Tail(s), Append(cur, Head(s)))

Split(s) == SplitFrom(s, <<>>)

\* " ".join(tokens)
RECURSIVE Join(_)
Join(tokens) ==
    IF tokens = <<>>
    THEN <<>>
    ELSE IF Len(tokens) = 1
         THEN tokens[1]
         ELSE tokens[1] \o <<" ">> \o Join(Tail(tokens))

\* re.sub(r"\s+", " ", s): every run of whitespace becomes one space
RECURSIVE CollapseSpaces(_)
CollapseSpaces(s) ==
    IF s = <<>>
    THEN <<>>
    ELSE IF Head(s) \in Whitespace
         THEN <<" ">> \o CollapseSpaces(LStrip(s))
         ELSE <<Head(s)>> \o CollapseSpaces(Tail(s))

normalize_whitespace(value) == CollapseSpaces(Strip(value))

normalize_name(value) ==
    IF ~Truthy(value)
    THEN <<>>
    ELSE normalize_whitespace(
             SelectSeq(Upper(value), IsWordOrSpace))

BUSINESS_SUFFIXES ==
    {<<"L","L","C">>, <<"L",".","L",".","C",".">>, <<"I","N","C">>, <<"I","N","C",".">>,
     <<"C","O","R","P">>, <<"C","O","R","P","O","R","A","T","I","O","N">>,
     <<"C","O">>, <<"C","O","M","P","A","N","Y">>, <<"L","T","D">>,
     <<"L","I","M","I","T","E","D">>, <<"P","L","L","C">>, <<"P","C">>,
     <<"L","P">>, <<"L","L","P">>,
     <<"A","S","S","O","C","I","A","T","E","S">>, <<"G","R","O","U","P">>,
     <<"S","E","R","V","I","C","E","S">>}

PERSON_SUFFIXES ==
    {<<"J","R">>, <<"S","R">>, <<"I","I","I">>, <<"I","V">>, <<"I","I">>}

remove_person_suffixes(name) ==
    Join(SelectSeq(Split(name), LAMBDA t : t \notin PERSON_SUFFIXES))

\* normalize_person_name(first, last) with no middle name: (first, last, middle, full)
normalize_person_name(first, last) ==
    LET f == remove_person_suffixes(normalize_name(first))
        l == remove_person_suffixes(normalize_name(last))
    IN  [first |-> f, last |-> l, middle |-> <<>>,
         full |-> normalize_whitespace(f \o <<" ">> \o <<" ">> \o l)]

normalize_entity_name(name) ==
    IF ~Truthy(name)
    THEN <<>>
    ELSE Join(SelectSeq(Split(normalize_name(name)), LAMBDA t : t \notin BUSINESS_SUFFIXES))

\* zip_code[:5]
FirstFive(s) == IF Len(s) <= 5 THEN s ELSE SubSeq(s, 1, 5)

normalize_zip(zip_code) ==
    IF ~Truthy(zip_code)
    THEN <<>>
    ELSE FirstFive(SelectSeq(zip_code, IsDigit))

DigitValue(c) == (CHOOSE i \in 1..10 : DigitChars[i] = c) - 1

RECURSIVE ToInt(_)
ToInt(s) == IF s = <<>> THEN 0 ELSE 10 * ToInt(SubSeq(s, 1, Len(s) - 1)) + DigitValue(s[Len(s)])

AllDigits(s) == \A i \in 1..Len(s) : IsDigit(s[i])

\* the pieces of s between the occurrences of sep
RECURSIVE SplitOn(_, _, _)
SplitOn(s, sep, cur) ==
    IF s = <<>>
    THEN <<cur>>
    ELSE IF Head(s) = sep
         THEN <<cur>> \o SplitOn(Tail(s), sep, <<>>)
         ELSE SplitOn(Tail(s), sep, Append(cur, Head(s)))

IsLeap(y) == (y % 4 = 0 /\ y % 100 # 0) \/ y % 400 = 0

DaysInMonth(y, m) ==
    IF m = 2 THEN (IF IsLeap(y) THEN 29 ELSE 28)
    ELSE IF m \in {4, 6, 9, 11} THEN 30 ELSE 31

\* the directive %Y takes four digits, %m and %d one or two
ValidDate(y, m, d) ==
    /\ Len(y) = 4 /\ AllDigits(y) /\ ToInt(y) >= 1
    /\ Len(m) \in {1, 2} /\ AllDigits(m) /\ ToInt(m) \in 1..12
    /\ Len(d) \in {1, 2} /\ AllDigits(d) /\ ToInt(d) >= 1
    /\ ToInt(d) <= DaysInMonth(ToInt(y), ToInt(m))

\* two digits, zero-padded
Pad2(s) == IF Len(s) = 1 THEN <<"0">> \o s ELSE s

\* normalize_dob: [iso, compact], both None when the text is neither
\* MM/DD/YYYY nor YYYY-MM-DD
normalize_dob(dob_value) ==
    LET text == Strip(dob_value)
        mdy == SplitOn(text, "/", <<>>)
        ymd == SplitOn(text, "-", <<>>)
    IN  IF ~Truthy(dob_value)
        THEN [iso |-> None, compact |-> None]
        ELSE IF Len(mdy) = 3 /\ ValidDate(mdy[3], mdy[1], mdy[2])
        THEN [iso |-> mdy[3] \o <<"-">> \o Pad2(mdy[1]) \o <<"-">> \o Pad2(mdy[2]),
              compact |-> mdy[3] \o Pad2(mdy[1]) \o Pad2(mdy[2])]
        ELSE IF Len(ymd) = 3 /\ ValidDate(ymd[1], ymd[2], ymd[3])
        THEN [iso |-> ymd[1] \o <<"-">> \o Pad2(ymd[2]) \o <<"-">> \o Pad2(ymd[3]),
              compact |-> ymd[1] \o Pad2(ymd[2]) \o Pad2(ymd[3])]
        ELSE [iso |-> None, compact |-> None]

-----------------------------------------------------------------------------
(* engine/vendor_classifier.py *)

\* BUSINESS_SUFFIXES of vendor_classifier.py
VENDOR_BUSINESS_SUFFIXES ==
    {<<"L","L","C">>, <<"L",".","L",".","C",".">>, <<"I","N","C">>, <<"I","N","C",".">>,
     <<"C","O","R","P">>, <<"C","O","R","P","O","R","A","T","I","O","N">>,
     <<"C","O">>, <<"C","O","M","P","A","N","Y">>, <<"L","T","D">>,
     <<"L","I","M","I","T","E","D">>, <<"P","L","L","C">>, <<"P","C">>,
     <<"L","P">>, <<"L","L","P">>}

BUSINESS_KEYWORDS ==
    {<<"G","R","O","U","P">>, <<"S","E","R","V","I","C","E","S">>,
     <<"A","S","S","O","C","I","A","T","E","S">>,
     <<"E","N","T","E","R","P","R","I","S","E","S">>,
     <<"H","O","L","D","I","N","G","S">>, <<"S","O","L","U","T","I","O","N","S">>,
     <<"C","L","I","N","I","C">>, <<"M","E","D","I","C","A","L">>,
     <<"H","E","A","L","T","H">>, <<"T","H","E","R","A","P","Y">>,
     <<"S","U","P","P","L","Y">>}

\* the digit count of an EIN
EIN_DIGITS == 9

AnyTokenIn(tokens, S) == \E i \in 1..Len(tokens) : tokens[i] \in S

\* the tokens of the upper-cased name with its punctuation removed
VendorTokens(name) == Split(SelectSeq(Strip(Upper(name)), IsWordOrSpace))

\* "if tax_id: ... if len(digits) == 9"
tax_id_is_ein(tax_id) ==
    Truthy(tax_id) /\ Len(SelectSeq(tax_id, IsDigit)) = EIN_DIGITS

\* classify_named whose person rule sets no upper limit on the token count
classify_named_two_or_more(tokens, tax_id) ==
    IF tax_id_is_ein(tax_id)
    THEN "ENTITY"
    ELSE IF AnyTokenIn(tokens, VENDOR_BUSINESS_SUFFIXES)
    THEN "ENTITY"
    ELSE IF AnyTokenIn(tokens, BUSINESS_KEYWORDS)
    THEN "ENTITY"
    ELSE IF Len(tokens) >= 2 /\ ~AnyTokenIn(tokens, BUSINESS_KEYWORDS)
    THEN "PERSON_VENDOR"
    ELSE "AMBIGUOUS"

\* the rules of classify_vendor that follow the test of the name
classify_named(tokens, tax_id) ==
    IF tax_id_is_ein(tax_id)
    THEN "ENTITY"
    ELSE IF AnyTokenIn(tokens, VENDOR_BUSINESS_SUFFIXES)
    THEN "ENTITY"
    ELSE IF AnyTokenIn(tokens, BUSINESS_KEYWORDS)
    THEN "ENTITY"
    ELSE IF Len(tokens) >= 2 /\ Len(tokens) <= 3 /\ ~AnyTokenIn(tokens, BUSINESS_KEYWORDS)
    THEN "PERSON_VENDOR"
    ELSE "AMBIGUOUS"

classify_vendor(name, tax_id) ==
    IF ~Truthy(name)
    THEN "AMBIGUOUS"
    ELSE classify_named(VendorTokens(name), tax_id)

-----------------------------------------------------------------------------
(* Thresholds *)

\* matcher_people.py
FUZZ_STRONG == 95
FUZZ_POSSIBLE == 90

\* matcher_entity.py
ENTITY_FUZZ_STRONG == 95

-----------------------------------------------------------------------------
(* Match results *)

\* the result dictionary both matchers start from
NewResult ==
    [oig_status |-> "NOT FOUND",
     oig_date |-> "",
     sam_status |-> "NOT FOUND",
     sam_date |-> "",
     reason |-> <<>>,
     review_required |-> FALSE,
     review_source |-> "",
     review_candidate_name |-> <<>>,
     review_candidate_exclusion_date |-> "",
     review_note |-> <<>>,
     review_needed_data |-> ""]

\* exclusion_date or ""
OrEmpty(d) == IF d = "" THEN "" ELSE d

\* set_review without its early return: a later signal overwrites the item
set_review_overwrite(res, source, candidate_name, exclusion_date, note, needed_data) ==
    [res EXCEPT !.review_required = TRUE,
                !.review_source = source,
                !.review_candidate_name = candidate_name,
                !.review_candidate_exclusion_date = OrEmpty(exclusion_date),
                !.review_note = note,
                !.review_needed_data = needed_data]

\* matcher_people._set_review
set_review(res, source, candidate_name, exclusion_date, note, needed_data) ==
    IF res.review_required
    THEN res
    ELSE [res EXCEPT !.review_required = TRUE,
                     !.review_source = source,
                     !.review_candidate_name = candidate_name,
                     !.review_candidate_exclusion_date = OrEmpty(exclusion_date),
                     !.review_note = note,
                     !.review_needed_data = needed_data]

\* matcher_entity._set_review
entity_set_review(res, source, candidate_name, exclusion_date, note, needed_data) ==
    IF res.review_required
    THEN res
    ELSE [res EXCEPT !.review_required = TRUE,
                     !.review_source = source,
                     !.review_candidate_name = candidate_name,
                     !.review_candidate_exclusion_date = OrEmpty(exclusion_date),
                     !.review_note = note,
                     !.review_needed_data = needed_data]

\* SelectByLast of which only the first row is fetched
SelectByLastFetchOne(table, last) ==
    LET found == SelectSeq(table, LAMBDA r : r.last = last)
    IN  IF found = <<>> THEN <<>> ELSE <<Head(found)>>

\* SELECT ... WHERE last = ?  (the rows in the order the cursor returns them)
SelectByLast(table, last) == SelectSeq(table, LAMBDA r : r.last = last)

\* SelectByName that also returns the rows whose name is similar
SelectByNameOrSimilar(table, name) ==
    SelectSeq(table, LAMBDA r : r.name = name \/ ratio(name, r.name) >= ENTITY_FUZZ_STRONG)

\* SELECT ... WHERE name = ?
SelectByName(table, name) == SelectSeq(table, LAMBDA r : r.name = name)

-----------------------------------------------------------------------------
(* match_person: one iteration of each loop *)

\* oig_exact_dob that forgets the DOB: the name alone confirms
oig_exact_dob_name_only(first, db_first, dob_compact, db_dob) ==
    first = db_first

\* oig_exact_dob for which a query without DOB agrees with every record
oig_exact_dob_or_missing(first, db_first, dob_compact, db_dob) ==
    first = db_first /\ (~Truthy(dob_compact) \/ dob_compact = db_dob)

\* "Exact + DOB match"
oig_exact_dob(first, db_first, dob_compact, db_dob) ==
    first = db_first /\ Truthy(dob_compact) /\ dob_compact = db_dob

\* oig_fuzzy_dob with the review threshold in place of the strong one
oig_fuzzy_dob_possible(score, dob_compact, db_dob) ==
    score >= FUZZ_POSSIBLE /\ Truthy(dob_compact) /\ dob_compact = db_dob

\* "Strong fuzzy + DOB"
oig_fuzzy_dob(score, dob_compact, db_dob) ==
    score >= FUZZ_STRONG /\ Truthy(dob_compact) /\ dob_compact = db_dob

\* "Possible"
oig_possible(score) == score >= FUZZ_POSSIBLE

\* f"{db_first} {db_last}".strip()
CandidateName(db_first, db_last) == Strip(db_first \o <<" ">> \o db_last)

\* OigPersonRow whose confirming branches have lost their break
OigPersonRowScanningOn(res, row, q) ==
    LET score == ratio(q.first, row.first)
    IN  IF oig_exact_dob(q.first, row.first, q.dob_compact, row.dob_compact)
        THEN [res |-> [res EXCEPT !.oig_status = "CONFIRMED",
                                  !.oig_date = row.exclusion_date,
                                  !.reason = <<"Exact first+last+DOB">>],
              brk |-> FALSE]
        ELSE IF oig_fuzzy_dob(score, q.dob_compact, row.dob_compact)
        THEN [res |-> [res EXCEPT !.oig_status = "CONFIRMED",
                                  !.oig_date = row.exclusion_date,
                                  !.reason = <<"Fuzzy first + DOB", score>>],
              brk |-> FALSE]
        ELSE IF oig_possible(score)
        THEN IF ~Truthy(q.dob_compact)
             THEN [res |-> set_review(res, "OIG People",
                              CandidateName(row.first, row.last),
                              row.exclusion_date,
                              <<"High-similarity OIG name match but DOB missing in source record.", score>>,
                              "DOB"),
                   brk |-> FALSE]
             ELSE IF Truthy(row.dob_compact) /\ q.dob_compact # row.dob_compact
             THEN [res |-> set_review(res, "OIG People",
                              CandidateName(row.first, row.last),
                              row.exclusion_date,
                              <<"High-similarity OIG name match but DOB does not match reference.", score>>,
                              "Confirm DOB / SSN last4"),
                   brk |-> FALSE]
             ELSE [res |-> res, brk |-> FALSE]
        ELSE [res |-> res, brk |-> FALSE]

\* the body of "for row in rows" of the OIG pass; brk tells that it ended in break
OigPersonRow(res, row, q) ==
    LET score == ratio(q.first, row.first)
    IN  IF oig_exact_dob(q.first, row.first, q.dob_compact, row.dob_compact)
        THEN [res |-> [res EXCEPT !.oig_status = "CONFIRMED",
                                  !.oig_date = row.exclusion_date,
                                  !.reason = <<"Exact first+last+DOB">>],
              brk |-> TRUE]
        ELSE IF oig_fuzzy_dob(score, q.dob_compact, row.dob_compact)
        THEN [res |-> [res EXCEPT !.oig_status = "CONFIRMED",
                                  !.oig_date = row.exclusion_date,
                                  !.reason = <<"Fuzzy first + DOB", score>>],
              brk |-> TRUE]
        ELSE IF oig_possible(score)
        THEN IF ~Truthy(q.dob_compact)
             THEN [res |-> set_review(res, "OIG People",
                              CandidateName(row.first, row.last),
                              row.exclusion_date,
                              <<"High-similarity OIG name match but DOB missing in source record.", score>>,
                              "DOB"),
                   brk |-> FALSE]
             ELSE IF Truthy(row.dob_compact) /\ q.dob_compact # row.dob_compact
             THEN [res |-> set_review(res, "OIG People",
                              CandidateName(row.first, row.last),
                              row.exclusion_date,
                              <<"High-similarity OIG name match but DOB does not match reference.", score>>,
                              "Confirm DOB / SSN last4"),
                   brk |-> FALSE]
             ELSE [res |-> res, brk |-> FALSE]
        ELSE [res |-> res, brk |-> FALSE]

\* sam_confirm that accepts the zip match alone
sam_confirm_zip_only(city, state, zip_code, db_city, db_state, db_zip) ==
    Truthy(zip_code) /\ Truthy(db_zip) /\ zip_code = db_zip

\* the "strong corroboration path" of the SAM pass
sam_confirm(city, state, zip_code, db_city, db_state, db_zip) ==
    LET state_matches == Truthy(state) /\ Truthy(db_state) /\ Upper(state) = db_state
        city_matches == Truthy(city) /\ Truthy(db_city) /\ Upper(city) = db_city
        zip_matches == Truthy(zip_code) /\ Truthy(db_zip) /\ zip_code = db_zip
    IN  zip_matches /\ ((~Truthy(city) /\ ~Truthy(state)) \/ (city_matches /\ state_matches))

\* SamPersonRow that flags a name-only hit for review
SamPersonRowFlagging(res, row, q) ==
    IF q.first = row.first
    THEN IF sam_confirm(q.city, q.state, q.zip_code, row.city, row.state, row.zip)
         THEN [res |-> [res EXCEPT !.sam_status = "CONFIRMED",
                                   !.sam_date = row.exclusion_date],
               brk |-> TRUE]
         ELSE [res |-> set_review(res, "SAM People",
                           CandidateName(row.first, row.last),
                           row.exclusion_date,
                           <<"SAM name match without corroboration.", 100>>,
                           "Zip / city / state"),
               brk |-> FALSE]
    ELSE [res |-> res, brk |-> FALSE]

\* the body of "for row in rows" of the SAM pass
SamPersonRow(res, row, q) ==
    IF q.first = row.first
       /\ sam_confirm(q.city, q.state, q.zip_code, row.city, row.state, row.zip)
    THEN [res |-> [res EXCEPT !.sam_status = "CONFIRMED",
                              !.sam_date = row.exclusion_date],
          brk |-> TRUE]
    ELSE [res |-> res, brk |-> FALSE]

RECURSIVE OigPeopleScan(_, _, _)
OigPeopleScan(res, rs, q) ==
    IF rs = <<>>
    THEN res
    ELSE LET step == OigPersonRow(res, Head(rs), q)
         IN  IF step.brk THEN step.res ELSE OigPeopleScan(step.res, Tail(rs), q)

RECURSIVE SamPeopleScan(_, _, _)
SamPeopleScan(res, rs, q) ==
    IF rs = <<>>
    THEN res
    ELSE LET step == SamPersonRow(res, Head(rs), q)
         IN  IF step.brk THEN step.res ELSE SamPeopleScan(step.res, Tail(rs), q)

\* match_person(conn, first, last, dob_compact, city, state, zip_code), q holding the arguments
match_person(db, q) ==
    SamPeopleScan(OigPeopleScan(NewResult, SelectByLast(db.oig_people, q.last), q),
                  SelectByLast(db.sam_people, q.last), q)

-----------------------------------------------------------------------------
(* match_entity *)

\* entity_fuzzy_hit with a threshold ten points lower
entity_fuzzy_hit_low(score) == score >= 85

\* "if score >= FUZZ_STRONG" of both entity scans
entity_fuzzy_hit(score) == score >= ENTITY_FUZZ_STRONG

\* "Secondary signal check": state corroboration
entity_state_agrees(state, db_state) ==
    Truthy(state) /\ Truthy(db_state) /\ Upper(state) = db_state

\* entity_zip_agrees that forgets to require the zips to be present
entity_zip_agrees_absent(zip_code, db_zip) == zip_code = db_zip

\* "Secondary signal check": zip corroboration
entity_zip_agrees(zip_code, db_zip) ==
    Truthy(zip_code) /\ Truthy(db_zip) /\ zip_code = db_zip

\* the outcome of "exact_oig = cur.fetchone()": the result after the
\* "if exact_oig" branch, and whether the fuzzy scan is entered
OigEntityExact(res, exact, q) ==
    IF exact # <<>>
    THEN [res |-> [res EXCEPT !.oig_status = "CONFIRMED",
                              !.oig_date = exact[1].exclusion_date,
                              !.reason = <<"Exact entity name match (OIG)">>],
          scan |-> FALSE]
    ELSE [res |-> res, scan |-> TRUE]

\* the body of the "Fuzzy OIG" loop
OigEntityRow(res, row, q) ==
    LET score == ratio(q.entity_name, row.name)
    IN  IF entity_fuzzy_hit(score)
        THEN [res |-> entity_set_review(res, "OIG Entities", row.name,
                          row.exclusion_date,
                          <<"High-similarity OIG entity name match.", score>>,
                          "Tax ID / address corroboration"),
              brk |-> TRUE]
        ELSE [res |-> res, brk |-> FALSE]

\* the outcome of "exact_sam = cur.fetchone()"
SamEntityExact(res, exact, q) ==
    IF exact # <<>>
    THEN [res |-> [res EXCEPT !.sam_status = "CONFIRMED",
                              !.sam_date = exact[1].exclusion_date],
          scan |-> FALSE]
    ELSE [res |-> res, scan |-> TRUE]

\* SamEntityRow that leaves the loop at the first similar name, agreeing or not
SamEntityRowStopping(res, row, q) ==
    LET score == ratio(q.entity_name, row.name)
    IN  IF entity_fuzzy_hit(score)
        THEN IF entity_state_agrees(q.state, row.state)
             THEN [res |-> entity_set_review(res, "SAM Entities", row.name,
                               row.exclusion_date,
                               <<"High-similarity SAM entity match with state corroboration.", score>>,
                               "Tax ID / exact legal name confirmation"),
                   brk |-> TRUE]
             ELSE IF entity_zip_agrees(q.zip_code, row.zip)
             THEN [res |-> entity_set_review(res, "SAM Entities", row.name,
                               row.exclusion_date,
                               <<"High-similarity SAM entity match with zip corroboration.", score>>,
                               "Tax ID / exact legal name confirmation"),
                   brk |-> TRUE]
             ELSE [res |-> res, brk |-> TRUE]
        ELSE [res |-> res, brk |-> FALSE]

\* the body of the "Fuzzy SAM" loop
SamEntityRow(res, row, q) ==
    LET score == ratio(q.entity_name, row.name)
    IN  IF entity_fuzzy_hit(score)
        THEN IF entity_state_agrees(q.state, row.state)
             THEN [res |-> entity_set_review(res, "SAM Entities", row.name,
                               row.exclusion_date,
                               <<"High-similarity SAM entity match with state corroboration.", score>>,
                               "Tax ID / exact legal name confirmation"),
                   brk |-> TRUE]
             ELSE IF entity_zip_agrees(q.zip_code, row.zip)
             THEN [res |-> entity_set_review(res, "SAM Entities", row.name,
                               row.exclusion_date,
                               <<"High-similarity SAM entity match with zip corroboration.", score>>,
                               "Tax ID / exact legal name confirmation"),
                   brk |-> TRUE]
             ELSE [res |-> res, brk |-> FALSE]
        ELSE [res |-> res, brk |-> FALSE]

RECURSIVE OigEntityScan(_, _, _)
OigEntityScan(res, rs, q) ==
    IF rs = <<>>
    THEN res
    ELSE LET step == OigEntityRow(res, Head(rs), q)
         IN  IF step.brk THEN step.res ELSE OigEntityScan(step.res, Tail(rs), q)

RECURSIVE SamEntityScan(_, _, _)
SamEntityScan(res, rs, q) ==
    IF rs = <<>>
    THEN res
    ELSE LET step == SamEntityRow(res, Head(rs), q)
         IN  IF step.brk THEN step.res ELSE SamEntityScan(step.res, Tail(rs), q)

\* fetchone(): the first row of the cursor, or nothing
FetchOne(rs) == IF rs = <<>> THEN <<>> ELSE <<Head(rs)>>

\* match_entity(conn, entity_name, city, state, zip_code), q holding the arguments
match_entity(db, q) ==
    LET oigx == OigEntityExact(NewResult, FetchOne(SelectByName(db.oig_entities, q.entity_name)), q)
        r1 == IF oigx.scan THEN OigEntityScan(oigx.res, db.oig_entities, q) ELSE oigx.res
        samx == SamEntityExact(r1, FetchOne(SelectByName(db.sam_entities, q.entity_name)), q)
    IN  IF samx.scan THEN SamEntityScan(samx.res, db.sam_entities, q) ELSE samx.res

-----------------------------------------------------------------------------
(* The values the matcher model draws snapshots and queries from *)

CHRISTOPHER == <<"C","H","R","I","S","T","O","P","H","E","R">>
CHRISTOPHE == <<"C","H","R","I","S","T","O","P","H","E">>
CHRISTOPH == <<"C","H","R","I","S","T","O","P","H">>
CHRISTOFER == <<"C","H","R","I","S","T","O","F","E","R">>
JONES == <<"J","O","N","E","S">>
SMITH == <<"S","M","I","T","H">>

ACME_PLUMBING == <<"A","C","M","E"," ","P","L","U","M","B","I","N","G">>
ACME_PLUMBIN == <<"A","C","M","E"," ","P","L","U","M","B","I","N">>
ACME_PLUMB == <<"A","C","M","E"," ","P","L","U","M","B">>

AUSTIN == <<"A","U","S","T","I","N">>
DALLAS == <<"D","A","L","L","A","S">>
austin == <<"a","u","s","t","i","n">>
TX == <<"T","X">>
OK == <<"O","K">>
tx == <<"t","x">>

Z78701 == <<"7","8","7","0","1">>
Z73301 == <<"7","3","3","0","1">>

D1980 == <<"1","9","8","0","0","1","0","1">>
D1990 == <<"1","9","9","0","0","1","0","1">>

\* all sequences over S of length at most n
SeqUpTo(S, n) == UNION {[1..k -> S] : k \in 0..n}

\* no row, or one row of S
AtMostOne(S) == {<<>>} \cup {<<r>> : r \in S}

\* the ISO form normalize_dob stores next to a compact date
IsoOf(d) ==
    IF d = <<>>
    THEN <<>>
    ELSE SubSeq(d, 1, 4) \o <<"-">> \o SubSeq(d, 5, 6) \o <<"-">> \o SubSeq(d, 7, 8)

OigPersonRec(f, l, d, e) ==
    [first |-> f, last |-> l, dob |-> IsoOf(d), dob_compact |-> d, exclusion_date |-> e]

SamPersonRec(f, l, e, c, st, z) ==
    [first |-> f, last |-> l, exclusion_date |-> e, city |-> c, state |-> st, zip |-> z]

OigEntityRec(n, e) == [name |-> n, exclusion_date |-> e]

SamEntityRec(n, e, c, st, z) ==
    [name |-> n, exclusion_date |-> e, city |-> c, state |-> st, zip |-> z]

OigPeopleRows ==
    {OigPersonRec(f, JONES, d, "20200101") :
        f \in {CHRISTOPHER, CHRISTOPHE, CHRISTOPH}, d \in {None, D1980, D1990}}
    \cup {OigPersonRec(CHRISTOFER, JONES, D1980, "20200101"),
          OigPersonRec(CHRISTOPHER, SMITH, D1980, "20210202")}

OigPeopleCore ==
    {OigPersonRec(CHRISTOPH, JONES, D1990, "20200101"),
     OigPersonRec(CHRISTOPHER, JONES, D1980, "20210202")}

SamPeopleRows ==
    {SamPersonRec(CHRISTOPHER, JONES, "20190303", loc[1], loc[2], loc[3]) :
        loc \in {<<None, None, Z78701>>, <<AUSTIN, TX, Z78701>>,
                 <<DALLAS, TX, Z78701>>, <<AUSTIN, OK, Z78701>>,
                 <<AUSTIN, None, Z78701>>,
                 <<AUSTIN, TX, Z73301>>, <<AUSTIN, TX, None>>}}
    \cup {SamPersonRec(CHRISTOPHE, JONES, "20180404", AUSTIN, TX, Z78701),
          SamPersonRec(CHRISTOPHER, SMITH, "20180404", AUSTIN, TX, Z78701)}

SamPeopleCore ==
    {SamPersonRec(CHRISTOPHER, JONES, "20190303", AUSTIN, TX, Z78701),
     SamPersonRec(CHRISTOPHE, JONES, "20180404", AUSTIN, TX, Z78701)}

OigEntityRows ==
    {OigEntityRec(n, "20200101") : n \in {ACME_PLUMBING, ACME_PLUMBIN, ACME_PLUMB}}
    \cup {OigEntityRec(ACME_PLUMBIN, "20210202")}

OigEntityCore == {OigEntityRec(ACME_PLUMBIN, "20200101")}

SamEntityRows ==
    {SamEntityRec(ACME_PLUMBING, "20190303", AUSTIN, loc[1], loc[2]) :
        loc \in {<<TX, Z78701>>, <<OK, Z73301>>}}
    \cup {SamEntityRec(ACME_PLUMBIN, "20180404", AUSTIN, loc[1], loc[2]) :
        loc \in {<<TX, Z78701>>, <<OK, Z73301>>, <<OK, Z78701>>,
                 <<TX, Z73301>>, <<None, None>>}}
    \cup {SamEntityRec(ACME_PLUMB, "20170505", AUSTIN, TX, Z78701)}

SamEntityCore == {SamEntityRec(ACME_PLUMBIN, "20180404", AUSTIN, TX, Z78701)}

Db(op, oe, sp, se) ==
    [oig_people |-> op, oig_entities |-> oe, sam_people |-> sp, sam_entities |-> se]

\* the snapshots a connection may read: one table holds up to MaxRows rows
\* in any order, its sister table of the other registry at most one row
Snapshots ==
    {Db(a, <<>>, b, <<>>) : a \in SeqUpTo(OigPeopleRows, MaxRows), b \in AtMostOne(SamPeopleCore)}
    \cup {Db(a, <<>>, b, <<>>) : a \in AtMostOne(OigPeopleCore), b \in SeqUpTo(SamPeopleRows, MaxRows)}
    \cup {Db(<<>>, a, <<>>, b) : a \in SeqUpTo(OigEntityRows, MaxRows), b \in AtMostOne(SamEntityCore)}
    \cup {Db(<<>>, a, <<>>, b) : a \in AtMostOne(OigEntityCore), b \in SeqUpTo(SamEntityRows, MaxRows)}

PersonQueries ==
    {[kind |-> "person", first |-> CHRISTOPHER, last |-> JONES, dob_compact |-> d,
      city |-> loc[1], state |-> loc[2], zip_code |-> z] :
        d \in {None, D1980},
        loc \in {<<None, None>>, <<austin, tx>>, <<austin, None>>},
        z \in {None, Z78701}}

EntityQueries ==
    {[kind |-> "entity", entity_name |-> ACME_PLUMBING, city |-> None,
      state |-> st, zip_code |-> z] :
        st \in {None, tx}, z \in {None, Z78701}}

NoQuery == [kind |-> "none"]

-----------------------------------------------------------------------------
(* The cache directory and the processes using it *)

Months == {"2024-01", "2024-02"}

Procs == {"p1", "p2"}

\* get_cache_path(month) names no file
NoFile ==
    [exists |-> FALSE, tables |-> FALSE, indexes |-> FALSE,
     oig_people |-> <<>>, oig_entities |-> <<>>,
     sam_people |-> <<>>, sam_entities |-> <<>>]

\* cache_exists(month)
cache_exists(month) == fs[month].exists

NoCall == [op |-> "none"]

NoTxn == Db(<<>>, <<>>, <<>>, <<>>)

\* RUNS_DIR / client_name / month is not there
NoRunDir ==
    [dir |-> FALSE, audit |-> FALSE, metadata |-> FALSE, log |-> <<>>,
     staff_pdf |-> FALSE, board_pdf |-> FALSE, vendor_pdf |-> FALSE]

\* the locals of run_exclusion_check at its first statement: results is
\* the dictionary of line 245; source_file tells whether a source path was
\* supplied; read tells whether an input table was read; handed is what
\* the audit writer was given, if it was called; before is the run directory
\* of the month as the call found it
NewRun ==
    [results |-> [staff |-> <<>>, board |-> <<>>, vendors |-> <<>>],
     source_file |-> FALSE,
     read |-> FALSE,
     handed |-> <<>>,
     before |-> NoRunDir]

\* no process has called anything and no run has left a directory
InitProcs ==
    /\ pc = [p \in Procs |-> "idle"]
    /\ call = [p \in Procs |-> NoCall]
    /\ txn = [p \in Procs |-> NoTxn]
    /\ outcome = [p \in Procs |-> "none"]
    /\ run = [p \in Procs |-> NewRun]
    /\ runs = [m \in Months |-> NoRunDir]

InitFiles ==
    /\ fs = [m \in Months |-> NoFile]
    /\ InitProcs

-----------------------------------------------------------------------------
(* engine/reference_cache.py: the rows a build derives from the extracts *)

\* the person row load_oig inserts for one extract row, if any
OigRowPeople(row) ==
    IF Truthy(row.FIRSTNAME) /\ Truthy(row.LASTNAME)
    THEN LET n == normalize_person_name(row.FIRSTNAME, row.LASTNAME)
             dob == normalize_dob(row.DOB)
         IN  <<[first |-> n.first, last |-> n.last, dob |-> dob.iso,
                dob_compact |-> dob.compact, exclusion_date |-> row.EXCLDATE]>>
    ELSE <<>>

\* the entity row load_oig inserts for one extract row, if any
OigRowEntities(row) ==
    IF Truthy(row.BUSNAME)
    THEN <<[name |-> normalize_entity_name(row.BUSNAME), exclusion_date |-> row.EXCLDATE]>>
    ELSE <<>>

\* the person row the loop body of load_sam inserts for one extract row, if any
SamRowPeople(row) ==
    IF Truthy(row.First) /\ Truthy(row.Last)
    THEN LET n == normalize_person_name(row.First, row.Last)
         IN  <<[first |-> n.first, last |-> n.last, exclusion_date |-> row.ExclusionDate,
                city |-> Upper(row.City), state |-> Upper(row.State),
                zip |-> normalize_zip(row.Zip)]>>
    ELSE <<>>

\* the entity row the loop body of load_sam inserts for one extract row, if any
SamRowEntities(row) ==
    IF Truthy(row.Name)
    THEN <<[name |-> normalize_entity_name(row.Name), exclusion_date |-> row.ExclusionDate,
            city |-> Upper(row.City), state |-> Upper(row.State),
            zip |-> normalize_zip(row.Zip)]>>
    ELSE <<>>

\* the concatenation of F(row) over the rows, in order
RECURSIVE FlatMapOigPeople(_)
FlatMapOigPeople(rs) ==
    IF rs = <<>> THEN <<>> ELSE OigRowPeople(Head(rs)) \o FlatMapOigPeople(Tail(rs))

RECURSIVE FlatMapOigEntities(_)
FlatMapOigEntities(rs) ==
    IF rs = <<>> THEN <<>> ELSE OigRowEntities(Head(rs)) \o FlatMapOigEntities(Tail(rs))

RECURSIVE FlatMapSamPeople(_)
FlatMapSamPeople(rs) ==
    IF rs = <<>> THEN <<>> ELSE SamRowPeople(Head(rs)) \o FlatMapSamPeople(Tail(rs))

RECURSIVE FlatMapSamEntities(_)
FlatMapSamEntities(rs) ==
    IF rs = <<>> THEN <<>> ELSE SamRowEntities(Head(rs)) \o FlatMapSamEntities(Tail(rs))

\* the rows on the connection after load_oig went through a readable extract
load_oig(t, extract) ==
    [t EXCEPT !.oig_people = @ \o FlatMapOigPeople(extract.rows),
              !.oig_entities = @ \o FlatMapOigEntities(extract.rows)]

\* the rows on the connection after the loops of load_sam went through a
\* readable extract, chunk after chunk
load_sam_rows(t, extract) ==
    [t EXCEPT !.sam_people = @ \o FlatMapSamPeople(extract.rows),
              !.sam_entities = @ \o FlatMapSamEntities(extract.rows)]

\* a connection that opens the file anew, empty
connect_truncating(db) == [NoFile EXCEPT !.exists = TRUE]

\* sqlite3.connect(db_path): the file is created when it is not there
connect(db) == [db EXCEPT !.exists = TRUE]

\* create_tables: the four CREATE TABLE statements, each committed as it runs
create_tables(db) == [db EXCEPT !.tables = TRUE]

\* create_indexes
create_indexes(db) == [db EXCEPT !.indexes = TRUE]

\* conn.commit(): the rows of the transaction reach the file
commit(db, t) ==
    [db EXCEPT !.oig_people = @ \o t.oig_people,
               !.oig_entities = @ \o t.oig_entities,
               !.sam_people = @ \o t.sam_people,
               !.sam_entities = @ \o t.sam_entities]

\* the file build_reference_cache leaves when every statement of lines 39-54 runs
BuiltSnapshot(oig, sam) ==
    create_indexes(commit(create_tables(connect(NoFile)),
                          load_sam_rows(load_oig(NoTxn, oig), sam)))

-----------------------------------------------------------------------------
(* The extracts a build is handed *)

OigRawRows ==
    {[FIRSTNAME |-> <<"c","h","r","i","s","t","o","p","h","e","r">>,
      LASTNAME |-> <<"J","o","n","e","s",","," ","J","r",".">>,
      BUSNAME |-> <<>>,
      DOB |-> <<"0","1","/","0","1","/","1","9","8","0">>,
      EXCLDATE |-> "20200101"],
     [FIRSTNAME |-> <<>>,
      LASTNAME |-> <<>>,
      BUSNAME |-> <<"A","c","m","e"," ","P","l","u","m","b","i","n","g",","," ","L","L","C">>,
      DOB |-> <<>>,
      EXCLDATE |-> "20210202"],
     [FIRSTNAME |-> <<"C","h","r","i","s","t","o","p","h","e">>,
      LASTNAME |-> <<"S","m","i","t","h","_","L","e","e"," ","I","I","I">>,
      BUSNAME |-> <<"A","c","m","e"," ","P","l","u","m","b","i","n"," ","I","n","c",".">>,
      DOB |-> <<"1","9","9","0","-","0","1","-","0","1">>,
      EXCLDATE |-> "20190303"]}

SamRawRows ==
    {[First |-> <<"C","h","r","i","s","t","o","p","h","e","r">>,
      Last |-> <<"J","o","n","e","s">>,
      Name |-> <<>>,
      City |-> <<"A","u","s","t","i","n">>,
      State |-> <<"t","x">>,
      Zip |-> <<"7","8","7","0","1","-","1","2","3","4">>,
      ExclusionDate |-> "20180404"],
     [First |-> <<>>,
      Last |-> <<>>,
      Name |-> <<"A","c","m","e"," ","P","l","u","m","b","i","n","g"," ","C","o",".">>,
      City |-> <<"D","a","l","l","a","s">>,
      State |-> <<"T","X">>,
      Zip |-> <<"7","3","3","0","1">>,
      ExclusionDate |-> "20170505"]}

Unreadable == [readable |-> FALSE, rows |-> <<>>]

OigExtracts ==
    {Unreadable} \cup {[readable |-> TRUE, rows |-> rs] : rs \in SeqUpTo(OigRawRows, MaxExtractRows)}

SamExtracts ==
    {Unreadable} \cup {[readable |-> TRUE, rows |-> rs] : rs \in SeqUpTo(SamRawRows, MaxExtractRows)}

-----------------------------------------------------------------------------
(* build_reference_cache and run_exclusion_check, statement by statement *)

\* the process of the application
MainProcs == {"p1"}

BuildPcs == {"b_check", "b_connect", "b_create_tables", "b_load_oig", "b_load_sam"}

\* an exception leaves the function: the connection is dropped with its
\* uncommitted rows, and the caller gets the error
Raise(p, err) ==
    /\ pc' = [pc EXCEPT ![p] = "idle"]
    /\ outcome' = [outcome EXCEPT ![p] = err]
    /\ txn' = [txn EXCEPT ![p] = NoTxn]

\* a build that never finds the month taken
build_rejects_never(month) == FALSE

\* "if db_path.exists()" of build_reference_cache
build_rejects(month) == fs[month].exists

\* build_reference_cache(month, oig_path, sam_path) is called; kw tells that
\* the caller also passes force_rebuild, which the signature does not have:
\* the call raises TypeError before the body runs.  existed records whether
\* the month had a snapshot file when the call was made.
BuildCall(p, month, oig, sam, kw) ==
    /\ pc[p] = "idle"
    /\ call' = [call EXCEPT ![p] = [op |-> "build", month |-> month, oig |-> oig, sam |-> sam,
                                    force_rebuild |-> kw, existed |-> cache_exists(month)]]
    /\ IF kw
       THEN Raise(p, "TypeError")
       ELSE /\ pc' = [pc EXCEPT ![p] = "b_check"]
            /\ outcome' = [outcome EXCEPT ![p] = "none"]
            /\ txn' = [txn EXCEPT ![p] = NoTxn]
    /\ UNCHANGED <<fs, matchVars, runVars>>

\* lines 34-37: the existence check
BuildCheck(p) ==
    /\ pc[p] = "b_check"
    /\ IF build_rejects(call[p].month)
       THEN Raise(p, "AlreadyExists")
       ELSE /\ pc' = [pc EXCEPT ![p] = "b_connect"]
            /\ UNCHANGED <<outcome, txn>>
    /\ UNCHANGED <<fs, call, matchVars, runVars>>

\* lines 39-40: sqlite3.connect
BuildConnect(p) ==
    /\ pc[p] = "b_connect"
    /\ fs' = [fs EXCEPT ![call[p].month] = connect(@)]
    /\ pc' = [pc EXCEPT ![p] = "b_create_tables"]
    /\ UNCHANGED <<call, txn, outcome, matchVars, runVars>>

\* line 42: create_tables; CREATE TABLE fails when the table is there
BuildCreateTables(p) ==
    /\ pc[p] = "b_create_tables"
    /\ IF fs[call[p].month].tables
       THEN Raise(p, "OperationalError") /\ UNCHANGED fs
       ELSE /\ fs' = [fs EXCEPT ![call[p].month] = create_tables(@)]
            /\ pc' = [pc EXCEPT ![p] = "b_load_oig"]
            /\ UNCHANGED <<outcome, txn>>
    /\ UNCHANGED <<call, matchVars, runVars>>

\* line 45: load_oig; pd.read_csv raises on an unreadable extract, else every
\* row is inserted in the open transaction
BuildLoadOig(p) ==
    /\ pc[p] = "b_load_oig"
    /\ IF ~call[p].oig.readable
       THEN Raise(p, "ReadError")
       ELSE /\ txn' = [txn EXCEPT ![p] = load_oig(@, call[p].oig)]
            /\ pc' = [pc EXCEPT ![p] = "b_load_sam"]
            /\ UNCHANGED outcome
    /\ UNCHANGED <<fs, call, matchVars, runVars>>

\* line 48: load_sam; pd.read_csv raises on an unreadable extract; on a
\* readable one, called with chunksize, it returns a TextFileReader, and
\* line 134 calls .fillna on it, which that class does not have: AttributeError
\* before the first chunk is read.  Either way the exception leaves
\* build_reference_cache: lines 51-54 (create_indexes, commit, close) do not
\* run and the inserted OIG rows are rolled back.
BuildLoadSam(p) ==
    /\ pc[p] = "b_load_sam"
    /\ IF ~call[p].sam.readable
       THEN Raise(p, "ReadError")
       ELSE Raise(p, "AttributeError")
    /\ UNCHANGED <<fs, call, matchVars, runVars>>

-----------------------------------------------------------------------------
(* engine/runner.py: what run_exclusion_check computes for one input row *)

LowerChar(c) ==
    IF \E i \in 1..26 : UpperChars[i] = c
    THEN LowerChars[CHOOSE i \in 1..26 : UpperChars[i] = c]
    ELSE c

\* str.casefold() on the characters of the model
Casefold(s) == [i \in 1..Len(s) |-> LowerChar(s[i])]

\* the header-like vendor names the vendor loop skips
VENDOR_HEADER_NAMES ==
    {<<"n","a","m","e">>, <<"v","e","n","d","o","r">>,
     <<"v","e","n","d","o","r"," ","n","a","m","e">>,
     <<"e","n","t","i","t","y">>, <<"p","a","y","e","e">>}

PersonQuery(first, last, dob_compact, zip_code) ==
    [kind |-> "person", first |-> first, last |-> last, dob_compact |-> dob_compact,
     city |-> None, state |-> None, zip_code |-> zip_code]

EntityQuery(entity_name, state, zip_code) ==
    [kind |-> "entity", entity_name |-> entity_name, city |-> None,
     state |-> state, zip_code |-> zip_code]

\* tokens[0] if tokens else ""
FirstToken(tokens) == IF tokens = <<>> THEN <<>> ELSE tokens[1]

\* tokens[-1] if len(tokens) > 1 else ""
LastToken(tokens) == IF Len(tokens) > 1 THEN tokens[Len(tokens)] ELSE <<>>

\* a or b
Or(a, b) == IF Truthy(a) THEN a ELSE b

\* the staff loop body: the result appended for one row
StaffResult(db, row) ==
    LET n == normalize_person_name(row.first, row.last)
        dob == normalize_dob(row.dob)
    IN  [category |-> "staff", name |-> n.full, dob |-> dob.iso,
         match |-> match_person(db, PersonQuery(n.first, n.last, dob.compact,
                                                normalize_zip(row.zip)))]

\* the board loop body, for a table whose zip column is a column of its own
\* (no combined "City, State, Zip" column)
BoardResult(db, row) ==
    LET tokens == Split(row.name)
        n == normalize_person_name(FirstToken(tokens), LastToken(tokens))
        dob == normalize_dob(row.dob)
        zip_raw == Strip(row.zip)
    IN  [category |-> "board", name |-> n.full, dob |-> dob.iso,
         match |-> match_person(db, PersonQuery(n.first, n.last, dob.compact,
                                                Or(normalize_zip(zip_raw), normalize_zip(row.zip))))]

\* the two "continue" of the vendor loop
vendor_row_skipped(row) ==
    \/ ~Truthy(Strip(row.name))
    \/ Casefold(Strip(row.name)) \in VENDOR_HEADER_NAMES

\* the entity match of a vendor row
VendorEntityMatch(db, row) ==
    match_entity(db, EntityQuery(normalize_entity_name(row.name), Upper(row.state),
                                 normalize_zip(row.zip)))

\* the person match of a vendor row
VendorPersonMatch(db, row) ==
    LET tokens == Split(row.name)
        n == normalize_person_name(FirstToken(tokens), LastToken(tokens))
    IN  match_person(db, PersonQuery(n.first, n.last, None, normalize_zip(row.zip)))

\* an ambiguous vendor that keeps the person result whenever it carries anything
prefers_person_flagged(person_result) ==
    \/ person_result.oig_status = "CONFIRMED"
    \/ person_result.sam_status = "CONFIRMED"
    \/ person_result.review_required

\* "if person_result.get("oig_status") == "CONFIRMED" or ... sam_status ..."
prefers_person(person_result) ==
    \/ person_result.oig_status = "CONFIRMED"
    \/ person_result.sam_status = "CONFIRMED"

\* VendorDispatch with the preference of the ambiguous branch the other way
\* round: the entity result is kept when it confirms, the person result if not
VendorDispatchEntityFirst(db, row) ==
    LET classification == classify_vendor(row.name, row.tax_id)
    IN  IF classification = "ENTITY"
        THEN [classification |-> classification, called |-> {"match_entity"},
              match |-> VendorEntityMatch(db, row)]
        ELSE IF classification = "PERSON_VENDOR"
        THEN [classification |-> classification, called |-> {"match_person"},
              match |-> VendorPersonMatch(db, row)]
        ELSE LET entity_result == VendorEntityMatch(db, row)
                 person_result == VendorPersonMatch(db, row)
             IN  [classification |-> classification,
                  called |-> {"match_entity", "match_person"},
                  match |-> IF prefers_person(entity_result)
                            THEN entity_result
                            ELSE person_result]

\* lines 537-565: the matchers called for a vendor row and the result kept
VendorDispatch(db, row) ==
    LET classification == classify_vendor(row.name, row.tax_id)
    IN  IF classification = "ENTITY"
        THEN [classification |-> classification, called |-> {"match_entity"},
              match |-> VendorEntityMatch(db, row)]
        ELSE IF classification = "PERSON_VENDOR"
        THEN [classification |-> classification, called |-> {"match_person"},
              match |-> VendorPersonMatch(db, row)]
        ELSE LET entity_result == VendorEntityMatch(db, row)
                 person_result == VendorPersonMatch(db, row)
             IN  [classification |-> classification,
                  called |-> {"match_entity", "match_person"},
                  match |-> IF prefers_person(person_result)
                            THEN person_result
                            ELSE entity_result]

\* the vendor loop body: the result appended for one row that is not skipped
VendorResult(db, row) ==
    LET d == VendorDispatch(db, row)
    IN  [category |-> "vendors", name |-> row.name, state |-> Upper(row.state),
         zip_display |-> Strip(row.zip), tax_id_display |-> Strip(row.tax_id),
         classification |-> d.classification, called |-> d.called, match |-> d.match]

RECURSIVE StaffResults(_, _)
StaffResults(db, rs) ==
    IF rs = <<>> THEN <<>> ELSE <<StaffResult(db, Head(rs))>> \o StaffResults(db, Tail(rs))

RECURSIVE BoardResults(_, _)
BoardResults(db, rs) ==
    IF rs = <<>> THEN <<>> ELSE <<BoardResult(db, Head(rs))>> \o BoardResults(db, Tail(rs))

RECURSIVE VendorResults(_, _)
VendorResults(db, rs) ==
    IF rs = <<>>
    THEN <<>>
    ELSE (IF vendor_row_skipped(Head(rs)) THEN <<>> ELSE <<VendorResult(db, Head(rs))>>)
         \o VendorResults(db, Tail(rs))

-----------------------------------------------------------------------------
(* run_exclusion_check, statement by statement *)

\* no path was supplied for the category
NoTable == [supplied |-> FALSE]

\* a supplied table: readable tells whether _read_table_with_config returns,
\* resolves whether the entity-name column of a vendor table resolves
Table(readable, resolves, rs) ==
    [supplied |-> TRUE, readable |-> readable, resolves |-> resolves, rows |-> rs]

RunPcs ==
    {"r_check", "r_staff", "r_board", "r_vendors", "r_mkdir", "r_audit", "r_metadata",
     "r_log", "r_staff_pdf", "r_board_pdf", "r_vendor_pdf", "r_copy"}

\* a statement of the run that writes nothing shared goes on to the next
Goto(p, next) ==
    /\ pc' = [pc EXCEPT ![p] = next]
    /\ UNCHANGED <<outcome, txn>>

\* a run that never finds the month missing
run_rejects_never(month) == FALSE

\* "if not db_path.exists()" of run_exclusion_check
run_rejects(month) == ~fs[month].exists

\* run_exclusion_check(client_config_path, month, ...) is called; line 237
\* loads the client configuration, which raises when it cannot be loaded
RunCall(p, month, config_ok) ==
    /\ pc[p] = "idle"
    /\ Len(runs[month].log) < MaxLogLines
    /\ call' = [call EXCEPT ![p] = [op |-> "run", month |-> month]]
    /\ run' = [run EXCEPT ![p] = [NewRun EXCEPT !.before = runs[month]]]
    /\ IF config_ok
       THEN /\ pc' = [pc EXCEPT ![p] = "r_check"]
            /\ outcome' = [outcome EXCEPT ![p] = "none"]
            /\ UNCHANGED txn
       ELSE Raise(p, "ConfigError")
    /\ UNCHANGED <<fs, runs, matchVars>>

\* lines 238-243: the existence check that admits the run, and the
\* connection, which creates the file when it is not there
RunCheck(p) ==
    /\ pc[p] = "r_check"
    /\ IF run_rejects(call[p].month)
       THEN Raise(p, "NotFound") /\ UNCHANGED fs
       ELSE /\ fs' = [fs EXCEPT ![call[p].month] = connect(@)]
            /\ Goto(p, "r_staff")
    /\ UNCHANGED <<call, matchVars, runVars>>

\* a SELECT on a file that has no tables yet
no_such_table(month, rs) == rs # <<>> /\ ~fs[month].tables

\* lines 258-311: the staff table is read and every row matched
RunStaff(p, t) ==
    /\ pc[p] = "r_staff"
    /\ IF ~t.supplied
       THEN Goto(p, "r_board") /\ UNCHANGED run
       ELSE IF ~t.readable
       THEN Raise(p, "ReadError") /\ UNCHANGED run
       ELSE IF no_such_table(call[p].month, t.rows)
       THEN /\ Raise(p, "OperationalError")
            /\ run' = [run EXCEPT ![p].read = TRUE, ![p].source_file = TRUE]
       ELSE /\ Goto(p, "r_board")
            /\ run' = [run EXCEPT ![p].read = TRUE, ![p].source_file = TRUE,
                                  ![p].results.staff = StaffResults(fs[call[p].month], t.rows)]
    /\ UNCHANGED <<fs, call, runs, matchVars>>

\* lines 314-423: the board table is read and every row matched
RunBoard(p, t) ==
    /\ pc[p] = "r_board"
    /\ IF ~t.supplied
       THEN Goto(p, "r_vendors") /\ UNCHANGED run
       ELSE IF ~t.readable
       THEN Raise(p, "ReadError") /\ UNCHANGED run
       ELSE IF no_such_table(call[p].month, t.rows)
       THEN /\ Raise(p, "OperationalError")
            /\ run' = [run EXCEPT ![p].read = TRUE, ![p].source_file = TRUE]
       ELSE /\ Goto(p, "r_vendors")
            /\ run' = [run EXCEPT ![p].read = TRUE, ![p].source_file = TRUE,
                                  ![p].results.board = BoardResults(fs[call[p].month], t.rows)]
    /\ UNCHANGED <<fs, call, runs, matchVars>>

\* the rows of a vendor table the loop does not skip
VendorRowsKept(rs) == SelectSeq(rs, LAMBDA row : ~vendor_row_skipped(row))

\* lines 434-590: the vendor table is read, its entity-name column resolved,
\* every row classified and matched, and the connection closed
RunVendors(p, t) ==
    /\ pc[p] = "r_vendors"
    /\ IF ~t.supplied
       THEN Goto(p, "r_mkdir") /\ UNCHANGED run
       ELSE IF ~t.readable
       THEN Raise(p, "ReadError") /\ UNCHANGED run
       ELSE IF ~t.resolves
       THEN /\ Raise(p, "ColumnMappingError")
            /\ run' = [run EXCEPT ![p].read = TRUE, ![p].source_file = TRUE]
       ELSE IF no_such_table(call[p].month, VendorRowsKept(t.rows))
       THEN /\ Raise(p, "OperationalError")
            /\ run' = [run EXCEPT ![p].read = TRUE, ![p].source_file = TRUE]
       ELSE /\ Goto(p, "r_mkdir")
            /\ run' = [run EXCEPT ![p].read = TRUE, ![p].source_file = TRUE,
                                  ![p].results.vendors = VendorResults(fs[call[p].month], t.rows)]
    /\ UNCHANGED <<fs, call, runs, matchVars>>

\* a statement that writes into the run directory: it leaves the directory
\* as d and goes on, or raises and leaves it as it was
WriteStep(p, ok, d, next) ==
    IF ok
    THEN /\ runs' = [runs EXCEPT ![call[p].month] = d]
         /\ Goto(p, next)
    ELSE /\ Raise(p, "OSError")
         /\ UNCHANGED runs

\* line 593: create_run_directory
RunMkdir(p, ok) ==
    /\ pc[p] = "r_mkdir"
    /\ WriteStep(p, ok, [runs[call[p].month] EXCEPT !.dir = TRUE], "r_audit")
    /\ UNCHANGED <<fs, call, run, matchVars>>

\* lines 596-632: the metadata are collected and write_audit_workbook is
\* handed the results
RunAudit(p, ok) ==
    /\ pc[p] = "r_audit"
    /\ WriteStep(p, ok, [runs[call[p].month] EXCEPT !.audit = TRUE], "r_metadata")
    /\ run' = [run EXCEPT ![p].handed = IF ok THEN <<run[p].results>> ELSE @]
    /\ UNCHANGED <<fs, call, matchVars>>

\* line 633: write_metadata
RunMetadata(p, ok) ==
    /\ pc[p] = "r_metadata"
    /\ WriteStep(p, ok, [runs[call[p].month] EXCEPT !.metadata = TRUE], "r_log")
    /\ UNCHANGED <<fs, call, run, matchVars>>

\* line 634: write_run_log(run_dir, "Exclusion check completed successfully.")
RunLog(p, ok) ==
    /\ pc[p] = "r_log"
    /\ WriteStep(p, ok, [runs[call[p].month] EXCEPT !.log = Append(@, "completed")],
                 "r_staff_pdf")
    /\ UNCHANGED <<fs, call, run, matchVars>>

\* line 641: the staff report
RunStaffPdf(p, ok) ==
    /\ pc[p] = "r_staff_pdf"
    /\ WriteStep(p, ok, [runs[call[p].month] EXCEPT !.staff_pdf = TRUE], "r_board_pdf")
    /\ UNCHANGED <<fs, call, run, matchVars>>

\* line 642: the board report
RunBoardPdf(p, ok) ==
    /\ pc[p] = "r_board_pdf"
    /\ WriteStep(p, ok, [runs[call[p].month] EXCEPT !.board_pdf = TRUE], "r_vendor_pdf")
    /\ UNCHANGED <<fs, call, run, matchVars>>

\* line 643: the vendor report
RunVendorPdf(p, ok) ==
    /\ pc[p] = "r_vendor_pdf"
    /\ WriteStep(p, ok, [runs[call[p].month] EXCEPT !.vendor_pdf = TRUE], "r_copy")
    /\ UNCHANGED <<fs, call, run, matchVars>>

\* lines 645-692: with a source path, the outputs are copied beside it and
\* the log says so, or says that the copy failed; the exception of a failed
\* copy is caught.  Then the run returns.
RunCopy(p, ok) ==
    /\ pc[p] = "r_copy"
    /\ runs' = [runs EXCEPT ![call[p].month].log =
                   IF run[p].source_file
                   THEN Append(@, IF ok THEN "copied" ELSE "copy_failed")
                   ELSE @]
    /\ pc' = [pc EXCEPT ![p] = "idle"]
    /\ outcome' = [outcome EXCEPT ![p] = "ok"]
    /\ UNCHANGED <<fs, call, txn, run, matchVars>>

\* the runs of the lifecycle are started with no input table, and their
\* writers succeed
LifecycleTables == {NoTable}

LifecycleWrites == {TRUE}

\* load_sam raises before it looks at a row of its extract, so one row at
\* most is drawn
LifecycleSamExtracts ==
    {Unreadable} \cup {[readable |-> TRUE, rows |-> <<r>>] : r \in SamRawRows}

Init ==
    /\ InitFiles
    /\ conn = NoTxn
    /\ mq = NoQuery
    /\ result = NewResult
    /\ rows = <<>>
    /\ mpc = "idle"

Next ==
    \E p \in MainProcs :
        \/ \E month \in Months, oig \in OigExtracts, sam \in LifecycleSamExtracts, kw \in BOOLEAN :
              BuildCall(p, month, oig, sam, kw)
        \/ BuildCheck(p)
        \/ BuildConnect(p)
        \/ BuildCreateTables(p)
        \/ BuildLoadOig(p)
        \/ BuildLoadSam(p)
        \/ \E month \in Months, config_ok \in BOOLEAN : RunCall(p, month, config_ok)
        \/ RunCheck(p)
        \/ \E t \in LifecycleTables : RunStaff(p, t)
        \/ \E t \in LifecycleTables : RunBoard(p, t)
        \/ \E t \in LifecycleTables : RunVendors(p, t)
        \/ \E ok \in LifecycleWrites : RunMkdir(p, ok)
        \/ \E ok \in LifecycleWrites : RunAudit(p, ok)
        \/ \E ok \in LifecycleWrites : RunMetadata(p, ok)
        \/ \E ok \in LifecycleWrites : RunLog(p, ok)
        \/ \E ok \in LifecycleWrites : RunStaffPdf(p, ok)
        \/ \E ok \in LifecycleWrites : RunBoardPdf(p, ok)
        \/ \E ok \in LifecycleWrites : RunVendorPdf(p, ok)
        \/ \E ok \in LifecycleWrites : RunCopy(p, ok)

Spec == Init /\ [][Next]_vars

-----------------------------------------------------------------------------
(* Two processes of the application on the same cache directory *)

\* the month the two processes work on
ConcMonths == {"2024-01"}

\* an extract row that yields both a person and an entity
OigRowBoth == CHOOSE r \in OigRawRows : Truthy(r.FIRSTNAME) /\ Truthy(r.BUSNAME)

\* the extracts the two processes build from: an unreadable OIG extract, or
\* extracts that load
ConcOigExtracts ==
    {Unreadable, [readable |-> TRUE, rows |-> [i \in 1..MaxExtractRows |-> OigRowBoth]]}

ConcSamExtracts ==
    {[readable |-> TRUE, rows |-> [i \in 1..MaxExtractRows |-> r]] : r \in SamRawRows}

\* the staff table a concurrent run is handed
ConcStaffRows ==
    {[first |-> <<"C","h","r","i","s","t","o","p","h","e","r">>,
      last |-> <<"J","o","n","e","s">>,
      dob |-> <<"0","1","/","0","1","/","1","9","8","0">>,
      zip |-> <<"7","8","7","0","1">>]}

ConcStaffTables == {NoTable} \cup {Table(TRUE, TRUE, <<r>>) : r \in ConcStaffRows}

NextConc ==
    \E p \in Procs :
        \/ \E month \in ConcMonths, oig \in ConcOigExtracts, sam \in ConcSamExtracts :
              BuildCall(p, month, oig, sam, FALSE)
        \/ BuildCheck(p)
        \/ BuildConnect(p)
        \/ BuildCreateTables(p)
        \/ BuildLoadOig(p)
        \/ BuildLoadSam(p)
        \/ \E month \in ConcMonths : RunCall(p, month, TRUE)
        \/ RunCheck(p)
        \/ \E t \in ConcStaffTables : RunStaff(p, t)
        \/ \E t \in LifecycleTables : RunBoard(p, t)
        \/ \E t \in LifecycleTables : RunVendors(p, t)
        \/ \E ok \in LifecycleWrites : RunMkdir(p, ok)
        \/ \E ok \in LifecycleWrites : RunAudit(p, ok)
        \/ \E ok \in LifecycleWrites : RunMetadata(p, ok)
        \/ \E ok \in LifecycleWrites : RunLog(p, ok)
        \/ \E ok \in LifecycleWrites : RunStaffPdf(p, ok)
        \/ \E ok \in LifecycleWrites : RunBoardPdf(p, ok)
        \/ \E ok \in LifecycleWrites : RunVendorPdf(p, ok)
        \/ \E ok \in LifecycleWrites : RunCopy(p, ok)

SpecConc == Init /\ [][NextConc]_vars

-----------------------------------------------------------------------------
(* Runs against a month whose snapshot is complete *)

\* the month that has a snapshot, and the month that has none
BuiltMonth == "2024-01"

\* a snapshot file that holds its tables, the rows of db and its indexes
Built(db) ==
    [exists |-> TRUE, tables |-> TRUE, indexes |-> TRUE,
     oig_people |-> db.oig_people, oig_entities |-> db.oig_entities,
     sam_people |-> db.sam_people, sam_entities |-> db.sam_entities]

CHRISTOPHER_A_B_JONES ==
    <<"C","H","R","I","S","T","O","P","H","E","R"," ","A"," ","B"," ","J","O","N","E","S">>

\* the snapshots of the month: empty; a person of Source A; entities;
\* people of either registry together with an entity that bears a person's
\* name
RunSnapshots ==
    {Built(Db(<<>>, <<>>, <<>>, <<>>)),
     Built(Db(<<OigPersonRec(CHRISTOPHER, JONES, D1980, "20200101")>>, <<>>, <<>>, <<>>)),
     Built(Db(<<>>, <<OigEntityRec(ACME_PLUMBING, "20200101"),
                      OigEntityRec(<<>>, "20220303")>>, <<>>,
              <<SamEntityRec(ACME_PLUMBIN, "20180404", AUSTIN, TX, Z78701)>>)),
     Built(Db(<<OigPersonRec(CHRISTOPHE, JONES, D1990, "20200101")>>,
              <<OigEntityRec(CHRISTOPHER_A_B_JONES, "20210202"),
                OigEntityRec(ACME_PLUMBING, "20200101")>>,
              <<SamPersonRec(CHRISTOPHER, JONES, "20190303", None, None, Z78701)>>,
              <<>>))}

StaffRows ==
    {[first |-> <<"C","h","r","i","s","t","o","p","h","e","r">>,
      last |-> <<"J","o","n","e","s",","," ","J","r",".">>,
      dob |-> <<"0","1","/","0","1","/","1","9","8","0">>,
      zip |-> <<"7","8","7","0","1","-","1","2","3","4">>]}

BoardRows ==
    {[name |-> <<"C","h","r","i","s","t","o","p","h","e","r"," ","Q"," ","J","o","n","e","s">>,
      dob |-> <<"1","9","8","0","-","0","1","-","0","1">>,
      zip |-> <<>>]}

VendorNames ==
    {<<"A","c","m","e"," ","P","l","u","m","b","i","n","g",","," ","L","L","C">>,
     <<"A","c","m","e","-","P","l","u","m","b","i","n","g">>,
     <<"C","h","r","i","s","t","o","p","h","e","r"," ","J","o","n","e","s">>,
     <<"C","h","r","i","s","t","o","p","h","e","r"," ","A"," ","B"," ","J","o","n","e","s">>,
     <<"V","e","n","d","o","r"," ","N","a","m","e">>,
     <<"I","n","c">>,
     <<"C","h","r","i","s","t","o","p","h","e","r"," ","J","o","n","e","s"," ","J","r">>}

VendorRow(n, t) ==
    [name |-> n, tax_id |-> t, state |-> <<"t","x">>, zip |-> <<"7","8","7","0","1">>]

\* the vendor names without a tax id, and a person's name with one
VendorRows ==
    {VendorRow(n, <<>>) : n \in VendorNames}
    \cup {VendorRow(<<"C","h","r","i","s","t","o","p","h","e","r"," ","J","o","n","e","s">>,
                    <<"1","2","-","3","4","5","6","7","8","9">>)}

\* the tables a run may be handed: none, one that cannot be read, and the
\* readable ones
PersonTablesOf(Rows) ==
    {NoTable, Table(FALSE, TRUE, <<>>)}
    \cup {Table(TRUE, TRUE, rs) : rs \in SeqUpTo(Rows, MaxInputRows)}

\* the tables of one row: staff and board are drawn from these
OneRowTablesOf(Rows) ==
    {NoTable, Table(FALSE, TRUE, <<>>)} \cup {Table(TRUE, TRUE, <<r>>) : r \in Rows}

\* the vendor tables: those, and one whose entity-name column does not resolve
VendorTables ==
    PersonTablesOf(VendorRows) \cup {Table(TRUE, FALSE, <<>>)}

InitRun ==
    /\ fs \in {[m \in Months |-> IF m = BuiltMonth THEN snapshot ELSE NoFile] :
                  snapshot \in RunSnapshots}
    /\ InitProcs
    /\ conn = NoTxn
    /\ mq = NoQuery
    /\ result = NewResult
    /\ rows = <<>>
    /\ mpc = "idle"

NextRun ==
    \E p \in MainProcs :
        \/ \E month \in Months, config_ok \in BOOLEAN : RunCall(p, month, config_ok)
        \/ RunCheck(p)
        \/ \E t \in OneRowTablesOf(StaffRows) : RunStaff(p, t)
        \/ \E t \in OneRowTablesOf(BoardRows) : RunBoard(p, t)
        \/ \E t \in VendorTables : RunVendors(p, t)
        \/ \E ok \in BOOLEAN : RunMkdir(p, ok)
        \/ \E ok \in BOOLEAN : RunAudit(p, ok)
        \/ \E ok \in BOOLEAN : RunMetadata(p, ok)
        \/ \E ok \in BOOLEAN : RunLog(p, ok)
        \/ \E ok \in BOOLEAN : RunStaffPdf(p, ok)
        \/ \E ok \in BOOLEAN : RunBoardPdf(p, ok)
        \/ \E ok \in BOOLEAN : RunVendorPdf(p, ok)
        \/ \E ok \in BOOLEAN : RunCopy(p, ok)

SpecRun == InitRun /\ [][NextRun]_vars

-----------------------------------------------------------------------------
(* classify_vendor and normalize_zip, applied to drawn arguments *)

ClassifyNames ==
    {<<>>,
     <<" ">>,
     <<"A","c","m","e">>,
     <<"A","c","m","e"," ","P","l","u","m","b","i","n","g">>,
     <<"A","c","m","e"," ","P","l","u","m","b","i","n","g",","," ","L","L","C">>,
     <<"A","c","m","e"," ","G","r","o","u","p">>,
     <<"A","c","m","e"," ","C","o","r","p","o","r","a","t","i","o","n">>,
     <<"A","c","m","e"," ","_","L","L","C">>,
     <<"L",".","L",".","C",".">>,
     <<"A"," ","B"," ","C"," ","D">>}

ClassifyTaxIds ==
    {<<>>,
     <<" ">>,
     <<"1","2","-","3","4","5","6","7","8","9">>,
     <<"1","2","3","4","5","6","7","8","9">>,
     <<"1","2","-","3","4","5","6","7","8">>,
     <<"1","2","3","4","5","6","7","8","9","0">>}

ZipChars == {"7", "8", "-"}

PureInputs ==
    {[kind |-> "classify_vendor", name |-> n, tax_id |-> t] :
        n \in ClassifyNames, t \in ClassifyTaxIds}
    \cup {[kind |-> "normalize_zip", zip_code |-> z] : z \in SeqUpTo(ZipChars, MaxZipLen)}

InitPure ==
    /\ InitFiles
    /\ conn = NoTxn
    /\ mq \in PureInputs
    /\ result = NewResult
    /\ rows = <<>>
    /\ mpc = "idle"

\* classify_vendor(name, tax_id) is called and returns
ClassifyVendorCall ==
    /\ mpc = "idle"
    /\ mq.kind = "classify_vendor"
    /\ result' = [classification |-> classify_vendor(mq.name, mq.tax_id)]
    /\ mpc' = "done"
    /\ UNCHANGED <<conn, mq, rows, buildVars, runVars>>

\* normalize_zip(zip_code) is called and returns
NormalizeZipCall ==
    /\ mpc = "idle"
    /\ mq.kind = "normalize_zip"
    /\ result' = [zip_code |-> normalize_zip(mq.zip_code)]
    /\ mpc' = "done"
    /\ UNCHANGED <<conn, mq, rows, buildVars, runVars>>

NextPure == ClassifyVendorCall \/ NormalizeZipCall

SpecPure == InitPure /\ [][NextPure]_vars

-----------------------------------------------------------------------------
(* The matchers, statement by statement, against a drawn snapshot *)

InitMatch ==
    /\ InitFiles
    /\ conn \in Snapshots
    /\ mq = NoQuery
    /\ result = NewResult
    /\ rows = <<>>
    /\ mpc = "idle"

\* match_person is called: the result is created and the OIG rows are fetched
MatchPersonCall(q) ==
    /\ mpc = "idle"
    /\ mq' = q
    /\ result' = NewResult
    /\ rows' = SelectByLast(conn.oig_people, q.last)
    /\ mpc' = "oig_people"
    /\ UNCHANGED <<conn, buildVars, runVars>>

\* one iteration of the OIG loop; a break goes on to the SAM query
PersonOigRow ==
    /\ mpc = "oig_people"
    /\ rows # <<>>
    /\ LET step == OigPersonRow(result, Head(rows), mq)
       IN  /\ result' = step.res
           /\ IF step.brk
              THEN /\ mpc' = "sam_people"
                   /\ rows' = SelectByLast(conn.sam_people, mq.last)
              ELSE /\ mpc' = mpc
                   /\ rows' = Tail(rows)
    /\ UNCHANGED <<conn, mq, buildVars, runVars>>

\* the OIG loop ran out of rows: the SAM rows are fetched
PersonOigEnd ==
    /\ mpc = "oig_people"
    /\ rows = <<>>
    /\ mpc' = "sam_people"
    /\ rows' = SelectByLast(conn.sam_people, mq.last)
    /\ UNCHANGED <<conn, mq, result, buildVars, runVars>>

\* one iteration of the SAM loop; a break returns the result
PersonSamRow ==
    /\ mpc = "sam_people"
    /\ rows # <<>>
    /\ LET step == SamPersonRow(result, Head(rows), mq)
       IN  /\ result' = step.res
           /\ IF step.brk
              THEN mpc' = "done" /\ rows' = <<>>
              ELSE mpc' = mpc /\ rows' = Tail(rows)
    /\ UNCHANGED <<conn, mq, buildVars, runVars>>

\* the SAM loop ran out of rows: return result
PersonSamEnd ==
    /\ mpc = "sam_people"
    /\ rows = <<>>
    /\ mpc' = "done"
    /\ UNCHANGED <<conn, mq, result, rows, buildVars, runVars>>

\* match_entity is called: the exact OIG lookup decides whether to scan
MatchEntityCall(q) ==
    /\ mpc = "idle"
    /\ mq' = q
    /\ LET x == OigEntityExact(NewResult,
                    FetchOne(SelectByName(conn.oig_entities, q.entity_name)), q)
       IN  /\ result' = x.res
           /\ IF x.scan
              THEN mpc' = "oig_entities" /\ rows' = conn.oig_entities
              ELSE mpc' = "sam_exact" /\ rows' = <<>>
    /\ UNCHANGED <<conn, buildVars, runVars>>

\* one iteration of the fuzzy OIG loop
EntityOigRow ==
    /\ mpc = "oig_entities"
    /\ rows # <<>>
    /\ LET step == OigEntityRow(result, Head(rows), mq)
       IN  /\ result' = step.res
           /\ IF step.brk
              THEN mpc' = "sam_exact" /\ rows' = <<>>
              ELSE mpc' = mpc /\ rows' = Tail(rows)
    /\ UNCHANGED <<conn, mq, buildVars, runVars>>

\* the fuzzy OIG loop ran out of rows
EntityOigEnd ==
    /\ mpc = "oig_entities"
    /\ rows = <<>>
    /\ mpc' = "sam_exact"
    /\ UNCHANGED <<conn, mq, result, rows, buildVars, runVars>>

\* the exact SAM lookup
EntitySamExact ==
    /\ mpc = "sam_exact"
    /\ LET x == SamEntityExact(result,
                    FetchOne(SelectByName(conn.sam_entities, mq.entity_name)), mq)
       IN  /\ result' = x.res
           /\ IF x.scan
              THEN mpc' = "sam_entities" /\ rows' = conn.sam_entities
              ELSE mpc' = "done" /\ rows' = <<>>
    /\ UNCHANGED <<conn, mq, buildVars, runVars>>

\* one iteration of the fuzzy SAM loop
EntitySamRow ==
    /\ mpc = "sam_entities"
    /\ rows # <<>>
    /\ LET step == SamEntityRow(result, Head(rows), mq)
       IN  /\ result' = step.res
           /\ IF step.brk
              THEN mpc' = "done" /\ rows' = <<>>
              ELSE mpc' = mpc /\ rows' = Tail(rows)
    /\ UNCHANGED <<conn, mq, buildVars, runVars>>

\* the fuzzy SAM loop ran out of rows: return result
EntitySamEnd ==
    /\ mpc = "sam_entities"
    /\ rows = <<>>
    /\ mpc' = "done"
    /\ UNCHANGED <<conn, mq, result, rows, buildVars, runVars>>

\* the caller takes the result; query and result are discarded with the input row
MatchReturn ==
    /\ mpc = "done"
    /\ mpc' = "idle"
    /\ mq' = NoQuery
    /\ result' = NewResult
    /\ UNCHANGED <<conn, rows, buildVars, runVars>>

NextMatch ==
    \/ \E q \in PersonQueries : MatchPersonCall(q)
    \/ PersonOigRow
    \/ PersonOigEnd
    \/ PersonSamRow
    \/ PersonSamEnd
    \/ \E q \in EntityQueries : MatchEntityCall(q)
    \/ EntityOigRow
    \/ EntityOigEnd
    \/ EntitySamExact
    \/ EntitySamRow
    \/ EntitySamEnd
    \/ MatchReturn

SpecMatch == InitMatch /\ [][NextMatch]_vars

\* the statement-by-statement run returns what the function returns
LoopsAgree ==
    mpc = "done" =>
        result = IF mq.kind = "person" THEN match_person(conn, mq) ELSE match_entity(conn, mq)

-----------------------------------------------------------------------------
(* Properties of the matchers, checked under SpecMatch *)

\* the rows of a table, as a set
RowsOf(table) == {table[i] : i \in 1..Len(table)}

\* the review item a result carries
ReviewOf(res) ==
    <<res.review_required, res.review_source, res.review_candidate_name,
      res.review_candidate_exclusion_date, res.review_note, res.review_needed_data>>

PersonDone == mpc = "done" /\ mq.kind = "person"
EntityDone == mpc = "done" /\ mq.kind = "entity"

\* a Source-A person record whose DOB the query's DOB is present and equal to
DobAgrees(q, r) == q.dob_compact # <<>> /\ q.dob_compact = r.dob_compact

\* a Source-B record whose zip the query's zip is present and equal to
ZipAgrees(q, r) == q.zip_code # <<>> /\ r.zip # <<>> /\ q.zip_code = r.zip

\* a Source-B record whose state the query's state is present and equal to,
\* the letter case of the query's value aside
StateAgrees(q, r) == q.state # <<>> /\ r.state # <<>> /\ Upper(q.state) = r.state

\* a Source-B record whose city the query's city is present and equal to,
\* the letter case of the query's value aside
CityAgrees(q, r) == q.city # <<>> /\ r.city # <<>> /\ Upper(q.city) = r.city

\* the record a CONFIRMED status was taken from had a corroborating field
\* agreeing with the query; Source-A entity records carry no such field
OigCorroborated ==
    /\ mq.kind = "person"
    /\ \E r \in RowsOf(conn.oig_people) :
          r.last = mq.last /\ DobAgrees(mq, r) /\ result.oig_date = r.exclusion_date

SamCorroborated ==
    IF mq.kind = "person"
    THEN \E r \in RowsOf(conn.sam_people) :
            r.last = mq.last /\ ZipAgrees(mq, r) /\ result.sam_date = r.exclusion_date
    ELSE \E r \in RowsOf(conn.sam_entities) :
            /\ r.name = mq.entity_name
            /\ ZipAgrees(mq, r) \/ StateAgrees(mq, r)
            /\ result.sam_date = r.exclusion_date

\* C1 as stated: in every result of match_person or match_entity a CONFIRMED
\* status on either registry comes with a corroborating field (DOB, zip or
\* state) of the query agreeing with the reference record.
C1_ConfirmedIsCorroborated ==
    mq.kind # "none" =>
        /\ result.oig_status = "CONFIRMED" => OigCorroborated
        /\ result.sam_status = "CONFIRMED" => SamCorroborated

\* C1 amended: in every result of match_person a CONFIRMED status comes with
\* a corroborating field agreeing with the record it was taken from (the DOB
\* on Source A, the zip on Source B); in a result of match_entity a CONFIRMED
\* status comes from a stored name equal to the query name, and from nothing
\* less than equality.
C1_PersonConfirmedIsCorroborated ==
    /\ mq.kind = "person" =>
          /\ result.oig_status = "CONFIRMED" => OigCorroborated
          /\ result.sam_status = "CONFIRMED" => SamCorroborated
    /\ mq.kind = "entity" =>
          /\ result.oig_status = "CONFIRMED" =>
                \E r \in RowsOf(conn.oig_entities) :
                    r.name = mq.entity_name /\ result.oig_date = r.exclusion_date
          /\ result.sam_status = "CONFIRMED" =>
                \E r \in RowsOf(conn.sam_entities) :
                    r.name = mq.entity_name /\ result.sam_date = r.exclusion_date

\* a person was confirmed on Source A although another record of the same
\* name with a different DOB was there, and an entity can be confirmed too
C1_Witness ==
    /\ PersonDone
    /\ result.oig_status = "CONFIRMED"
    /\ \E r \in RowsOf(conn.oig_people) :
          r.last = mq.last /\ r.first = mq.first /\ r.dob_compact = D1990

\* C2: match_person returns oig_status = CONFIRMED exactly when the snapshot
\* holds a Source-A person record with the query's last name whose first name
\* equals the query's or has similarity >= 95 to it, and the query DOB is
\* present and equal to that record's DOB; otherwise it returns NOT FOUND.
C2_OigConfirmedIff ==
    PersonDone =>
        /\ result.oig_status \in {"CONFIRMED", "NOT FOUND"}
        /\ result.oig_status = "CONFIRMED" <=>
              \E r \in RowsOf(conn.oig_people) :
                  /\ r.last = mq.last
                  /\ r.first = mq.first \/ ratio(mq.first, r.first) >= 95
                  /\ DobAgrees(mq, r)

\* a fuzzy first name with the same DOB confirmed
C2_Witness ==
    /\ PersonDone
    /\ result.oig_status = "CONFIRMED"
    /\ result.reason # <<>>
    /\ result.reason[1] = "Fuzzy first + DOB"

\* C3: match_person returns sam_status = CONFIRMED exactly when the snapshot
\* holds a Source-B person record with the query's last name and exactly the
\* query's first name whose zip is present and equal to the query's zip, and
\* the query supplies neither city nor state or both its city and its state
\* equal the record's.
C3_SamConfirmedIff ==
    PersonDone =>
        /\ result.sam_status \in {"CONFIRMED", "NOT FOUND"}
        /\ result.sam_status = "CONFIRMED" <=>
              \E r \in RowsOf(conn.sam_people) :
                  /\ r.last = mq.last
                  /\ r.first = mq.first
                  /\ ZipAgrees(mq, r)
                  /\ \/ mq.city = <<>> /\ mq.state = <<>>
                     \/ CityAgrees(mq, r) /\ StateAgrees(mq, r)

\* a query that supplies city and state was confirmed on Source B while a
\* record of the same name and zip in another city was there
C3_Witness ==
    /\ PersonDone
    /\ result.sam_status = "CONFIRMED"
    /\ mq.city # <<>>
    /\ \E r \in RowsOf(conn.sam_people) :
          r.last = mq.last /\ r.first = mq.first /\ ZipAgrees(mq, r) /\ r.city = DALLAS

\* C4: once review_required is true, no later row and no later registry pass
\* of the same call changes any review_* field.
C4_ReviewIsSticky ==
    [][(result.review_required /\ mpc \notin {"idle", "done"})
          => ReviewOf(result') = ReviewOf(result)]_vars

\* a call ended with a review item while a later row of the scan was a
\* review candidate of another name
C4_Witness ==
    /\ PersonDone
    /\ result.review_required
    /\ mq.dob_compact = <<>>
    /\ LET rs == SelectByLast(conn.oig_people, mq.last)
       IN  /\ Len(rs) >= 2
           /\ ratio(mq.first, rs[1].first) >= 90
           /\ ratio(mq.first, rs[2].first) >= 90
           /\ rs[1].first # rs[2].first
           /\ result.review_candidate_name = CandidateName(rs[1].first, rs[1].last)

\* the condition of the SAM pass on one row, as C3 words it
SamRowConfirms(q, r) ==
    /\ r.first = q.first
    /\ ZipAgrees(q, r)
    /\ \/ q.city = <<>> /\ q.state = <<>>
       \/ CityAgrees(q, r) /\ StateAgrees(q, r)

\* C5: no step of the Source-B pass of match_person changes a review_* field,
\* and a Source-B row that does not confirm leaves sam_status = NOT FOUND.
C5_SamPassAttachesNoReview ==
    [][mpc = "sam_people" =>
          /\ ReviewOf(result') = ReviewOf(result)
          /\ (rows # <<>> /\ ~SamRowConfirms(mq, Head(rows)))
                => result'.sam_status = "NOT FOUND"]_vars

\* a Source-B record of the query's name did not confirm and the result
\* carries the review item of the Source-A pass
C5_Witness ==
    /\ PersonDone
    /\ result.sam_status = "NOT FOUND"
    /\ result.review_source = "OIG People"
    /\ \E r \in RowsOf(conn.sam_people) :
          r.last = mq.last /\ r.first = mq.first /\ ~SamRowConfirms(mq, r)

\* every stored entity name is less than 95 similar to the query name
AllNamesBelow95 ==
    \A r \in RowsOf(conn.oig_entities) \cup RowsOf(conn.sam_entities) :
        ratio(mq.entity_name, r.name) < 95

\* C6: when every stored entity name has similarity below 95 to the query
\* name, match_entity returns NOT FOUND on both registries and no review
\* item, whatever the query's state and zip.
C6_EntityBelowThresholdFindsNothing ==
    (mq.kind = "entity" /\ AllNamesBelow95) =>
        /\ result.oig_status = "NOT FOUND"
        /\ result.sam_status = "NOT FOUND"
        /\ ~result.review_required

\* a Source-B entity of a similar name and of the query's state and zip was
\* scanned and nothing was reported
C6_Witness ==
    /\ EntityDone
    /\ AllNamesBelow95
    /\ \E r \in RowsOf(conn.sam_entities) :
          ratio(mq.entity_name, r.name) >= 85 /\ StateAgrees(mq, r) /\ ZipAgrees(mq, r)

\* C7 as stated: whenever match_entity reports review_required, the query's
\* state or zip agreed with the candidate record's (a Source-A entity record
\* has neither); a query with no state and no zip is never flagged.
C7_EntityReviewIsCorroborated ==
    mq.kind = "entity" =>
        /\ result.review_required =>
              \E r \in RowsOf(conn.sam_entities) :
                  /\ r.name = result.review_candidate_name
                  /\ StateAgrees(mq, r) \/ ZipAgrees(mq, r)
        /\ (mq.state = <<>> /\ mq.zip_code = <<>>) => ~result.review_required

\* C7 amended: whenever match_entity reports a review item of source SAM
\* Entities, the query's state or zip agreed with the candidate record's, and
\* a query with no state and no zip gets no SAM Entities item; the only other
\* item is one of source OIG Entities, attached for a Source-A name of
\* similarity >= 95 without any corroborating field.
C7_SamEntityReviewIsCorroborated ==
    (mq.kind = "entity" /\ result.review_required) =>
        \/ /\ result.review_source = "SAM Entities"
           /\ \E r \in RowsOf(conn.sam_entities) :
                 /\ r.name = result.review_candidate_name
                 /\ r.exclusion_date = result.review_candidate_exclusion_date
                 /\ ratio(mq.entity_name, r.name) >= 95
                 /\ StateAgrees(mq, r) \/ ZipAgrees(mq, r)
        \/ /\ result.review_source = "OIG Entities"
           /\ \E r \in RowsOf(conn.oig_entities) :
                 /\ r.name = result.review_candidate_name
                 /\ ratio(mq.entity_name, r.name) >= 95

\* a SAM Entities item was attached on the zip alone, the states differing
C7_Witness ==
    /\ EntityDone
    /\ result.review_source = "SAM Entities"
    /\ result.review_note[1] = "High-similarity SAM entity match with zip corroboration."
    /\ mq.state # <<>>

-----------------------------------------------------------------------------
(* Claims about the life of a snapshot file, checked under Spec *)

\* a call of build_reference_cache as the signature allows it
PlainBuild(c) == c.op = "build" /\ ~c.force_rebuild

\* a call of build_reference_cache that passes force_rebuild
ForcedBuild(c) == c.op = "build" /\ c.force_rebuild

\* no build is between its existence check and its return on the month
NoBuildRunning(month) ==
    \A p \in Procs : pc[p] \in BuildPcs => call[p].month # month

\* C8: a call of build_reference_cache, without force_rebuild, for a month
\* that has a snapshot file never gets past the existence check: it returns
\* with the already-exists error, and from the call to the return the file of
\* the month stays exactly as it was (no table created, no row inserted, no
\* connection opened on it).
C8_ExistingSnapshotRejectsBuild ==
    [][\A p \in Procs :
          (PlainBuild(call'[p]) /\ call'[p].existed)
             => /\ pc'[p] \in {"b_check", "idle"}
                /\ pc'[p] = "idle" => outcome'[p] = "AlreadyExists"
                /\ txn'[p] = NoTxn
                /\ fs'[call'[p].month] = fs[call'[p].month]]_vars

\* a build was rejected on a month whose file holds its tables
C8_Witness ==
    \E p \in Procs :
        /\ PlainBuild(call[p])
        /\ call[p].existed
        /\ pc[p] = "idle"
        /\ outcome[p] = "AlreadyExists"
        /\ fs[call[p].month].exists
        /\ fs[call[p].month].tables

\* C9: a call of build with force_rebuild = true for a month that has a
\* snapshot succeeds, and once it has returned the file of the month is the
\* snapshot built from the extracts of that call and nothing else.
C9_ForcedRebuildReplaces ==
    \A p \in Procs :
        (ForcedBuild(call[p]) /\ call[p].existed /\ pc[p] = "idle")
           => /\ outcome[p] = "ok"
              /\ call[p].oig.readable /\ call[p].sam.readable
                    => fs[call[p].month] = BuiltSnapshot(call[p].oig, call[p].sam)

\* C10: whenever a month has a snapshot file and no build is running on it,
\* the file is what one complete build leaves: tables, every row of both
\* extracts, indexes, all committed.  A build that failed partway leaves no
\* file.
C10_ExistsMeansBuilt ==
    \A month \in Months :
        (cache_exists(month) /\ NoBuildRunning(month))
           => \E oig \in OigExtracts, sam \in SamExtracts :
                 /\ oig.readable
                 /\ sam.readable
                 /\ fs[month] = BuiltSnapshot(oig, sam)

\* C10, second half: after a build that failed partway the month has no
\* snapshot file, so that a later run is refused and a later build is not.
C10_FailedBuildLeavesNoFile ==
    \A p \in Procs :
        (PlainBuild(call[p]) /\ pc[p] = "idle"
            /\ outcome[p] \in {"ReadError", "AttributeError", "OperationalError"})
           => ~cache_exists(call[p].month)

-----------------------------------------------------------------------------
(* Claims about two interleaved processes, checked under SpecConc *)

\* build_reference_cache has connected and has not returned
WritingPcs == {"b_create_tables", "b_load_oig", "b_load_sam"}

\* run_exclusion_check has passed its existence check and has not returned
AdmittedPcs == RunPcs \ {"r_check"}

Writing(p, month) == pc[p] \in WritingPcs /\ call[p].month = month

Admitted(p, month) == pc[p] \in AdmittedPcs /\ call[p].month = month

\* C11: while a build of a month is between its connection and its return,
\* no run of that month is past its existence check.
C11_NoRunAdmittedWhileBuilding ==
    \A p \in Procs, q \in Procs, month \in Months :
        ~(Writing(p, month) /\ Admitted(q, month))

\* C11, second half: two builds of a month are never both between their
\* connection and their return.
C11_NoTwoBuildsWriting ==
    \A p \in Procs, q \in Procs, month \in Months :
        (Writing(p, month) /\ Writing(q, month)) => p = q

-----------------------------------------------------------------------------
(* Claims about a run, checked under SpecRun *)

\* the last call of the process was a run and it has returned or raised
RunOver(p) == call[p].op = "run" /\ pc[p] = "idle"

Confirmed(res) == res.oig_status = "CONFIRMED" \/ res.sam_status = "CONFIRMED"

\* the results of all three categories, in one sequence
AllResults(p) ==
    run[p].results.staff \o run[p].results.board \o run[p].results.vendors

\* C12: no step of a run (its connection, the matches of its staff, board
\* and vendor rows, its writers) changes a snapshot file: tables, rows and
\* indexes stay what the build committed.
C12_RunsOnlyRead == [][fs' = fs]_vars

\* a run on the month that has a snapshot returned after it confirmed a row
C12_Witness ==
    \E p \in Procs :
        /\ RunOver(p)
        /\ outcome[p] = "ok"
        /\ call[p].month = BuiltMonth
        /\ \E i \in 1..Len(AllResults(p)) : Confirmed(AllResults(p)[i].match)
        /\ fs[BuiltMonth] \in RunSnapshots

\* C13: a run whose existence check finds no snapshot file for the month
\* raises the not-found error at that check: no input table has been read,
\* no row matched, the runs directory is as it was and no snapshot file
\* appears for the month.
C13_RunOnMissingMonthFails ==
    [][\A p \in Procs :
          (pc[p] = "r_check" /\ pc'[p] # "r_check" /\ ~cache_exists(call[p].month))
             => /\ pc'[p] = "idle"
                /\ outcome'[p] = "NotFound"
                /\ ~run'[p].read
                /\ run'[p].results = NewRun.results
                /\ run'[p].handed = <<>>
                /\ runs' = runs
                /\ fs' = fs]_vars

\* a run was refused on a month that has no file and no run directory
C13_Witness ==
    \E p \in Procs :
        /\ RunOver(p)
        /\ outcome[p] = "NotFound"
        /\ ~cache_exists(call[p].month)
        /\ runs[call[p].month] = NoRunDir

\* C14: a run that produced staff results and whose vendor entity-name
\* column then does not resolve still hands the staff and board results it
\* produced to the audit writer.
C14_OtherCategoriesStillHanded ==
    \A p \in Procs :
        (RunOver(p) /\ outcome[p] = "ColumnMappingError" /\ run[p].results.staff # <<>>)
           => /\ run[p].handed # <<>>
              /\ run[p].handed[1].staff = run[p].results.staff
              /\ run[p].handed[1].board = run[p].results.board

\* C15: a run that raised left the run directory of its month as it found
\* it: none of its outputs stays behind, and no line of the log says that
\* it completed.
C15_FailedRunLeavesNothing ==
    \A p \in Procs :
        (RunOver(p) /\ outcome[p] \notin {"ok", "none"})
           => runs[call[p].month] = run[p].before

\* C15, the run log alone: a run that raised added no line to the log.
C15_FailedRunLogsNoCompletion ==
    \A p \in Procs :
        (RunOver(p) /\ outcome[p] \notin {"ok", "none"})
           => runs[call[p].month].log = run[p].before.log

\* the entity match of a reported vendor, recomputed from the reported fields
ReportedEntityMatch(db, r) ==
    match_entity(db, EntityQuery(normalize_entity_name(r.name), r.state,
                                 normalize_zip(r.zip_display)))

\* the person match of a reported vendor, recomputed from the reported fields
ReportedPersonMatch(db, r) ==
    LET n == normalize_person_name(FirstToken(Split(r.name)), LastToken(Split(r.name)))
    IN  match_person(db, PersonQuery(n.first, n.last, None, normalize_zip(r.zip_display)))

\* C16: every reported vendor result is match_entity's result alone for an
\* ENTITY, match_person's result alone for a PERSON_VENDOR and, for an
\* AMBIGUOUS vendor, both are run and the person result is reported if it
\* is CONFIRMED on either registry, the entity result otherwise.
C16_VendorDispatch ==
    \A p \in Procs :
        call[p].op = "run" =>
            \A i \in 1..Len(run[p].results.vendors) :
                LET r == run[p].results.vendors[i]
                    entity_result == ReportedEntityMatch(fs[call[p].month], r)
                    person_result == ReportedPersonMatch(fs[call[p].month], r)
                IN  /\ r.classification \in {"ENTITY", "PERSON_VENDOR", "AMBIGUOUS"}
                    /\ r.classification = "ENTITY"
                          => r.match = entity_result /\ r.called = {"match_entity"}
                    /\ r.classification = "PERSON_VENDOR"
                          => r.match = person_result /\ r.called = {"match_person"}
                    /\ r.classification = "AMBIGUOUS"
                          => /\ r.called = {"match_entity", "match_person"}
                             /\ r.match = IF Confirmed(person_result)
                                          THEN person_result
                                          ELSE entity_result

\* an ambiguous vendor whose person match and entity match both confirm, so
\* that the two results differ and the person result is the one reported;
\* an entity and a person vendor are reported in the same state or another
C16_Witness ==
    \E p \in Procs :
        /\ call[p].op = "run"
        /\ \E i \in 1..Len(run[p].results.vendors) :
              LET r == run[p].results.vendors[i]
              IN  /\ r.classification = "AMBIGUOUS"
                  /\ r.match.sam_status = "CONFIRMED"
                  /\ ReportedEntityMatch(fs[call[p].month], r).oig_status = "CONFIRMED"
                  /\ r.match # ReportedEntityMatch(fs[call[p].month], r)

-----------------------------------------------------------------------------
(* Claims about classify_vendor and normalize_zip, checked under SpecPure *)

Returned(kind) == mpc = "done" /\ mq.kind = kind

\* C17: for every name, the empty one included, classify_vendor returns
\* ENTITY when the tax id is present and holds exactly 9 digits.
C17_TaxIdDecidesFirst ==
    (Returned("classify_vendor") /\ tax_id_is_ein(mq.tax_id))
       => result.classification = "ENTITY"

\* C17 for the names that are not empty
C17_TaxIdDecidesForNamedVendor ==
    (Returned("classify_vendor") /\ tax_id_is_ein(mq.tax_id) /\ Truthy(mq.name))
       => result.classification = "ENTITY"

\* the suffix set and the keyword set as C23 lists them
C23_Suffixes ==
    {<<"L","L","C">>, <<"I","N","C">>, <<"C","O","R","P">>, <<"C","O">>, <<"L","T","D">>,
     <<"P","L","L","C">>, <<"P","C">>, <<"L","P">>, <<"L","L","P">>}

C23_Keywords ==
    {<<"G","R","O","U","P">>, <<"S","E","R","V","I","C","E","S">>,
     <<"A","S","S","O","C","I","A","T","E","S">>,
     <<"E","N","T","E","R","P","R","I","S","E","S">>,
     <<"H","O","L","D","I","N","G","S">>, <<"S","O","L","U","T","I","O","N","S">>,
     <<"C","L","I","N","I","C">>, <<"M","E","D","I","C","A","L">>,
     <<"H","E","A","L","T","H">>, <<"T","H","E","R","A","P","Y">>,
     <<"S","U","P","P","L","Y">>}

\* the spelled-out suffixes the classifier knows as well
C23_SpelledOutSuffixes ==
    {<<"C","O","R","P","O","R","A","T","I","O","N">>, <<"C","O","M","P","A","N","Y">>,
     <<"L","I","M","I","T","E","D">>}

\* the tokens of the upper-cased name, of which letters, digits, underscores
\* and white space are kept
C23_Tokens(name) == Split(SelectSeq(Upper(name), IsWordOrSpace))

\* the classification a name gets from its tokens under a set of business words
C23_ByTokens(tokens, business) ==
    IF AnyTokenIn(tokens, business)
    THEN "ENTITY"
    ELSE IF Len(tokens) \in {2, 3}
    THEN "PERSON_VENDOR"
    ELSE "AMBIGUOUS"

\* classify_vendor has returned for a name that is not empty and a tax id
\* that is absent or has not 9 digits
C23_NameDecides ==
    Returned("classify_vendor") /\ Truthy(mq.name) /\ ~tax_id_is_ein(mq.tax_id)

\* C23 as stated: without a 9-digit tax id a non-empty name is an ENTITY
\* exactly if one of its tokens is in {LLC, INC, CORP, CO, LTD, PLLC, PC, LP,
\* LLP} or is a business keyword; otherwise it is a PERSON_VENDOR if it has
\* 2 or 3 tokens and AMBIGUOUS if not.
C23_ClassifiedByListedSuffixes ==
    C23_NameDecides =>
        result.classification =
            C23_ByTokens(C23_Tokens(mq.name), C23_Suffixes \cup C23_Keywords)

\* C23 amended: the same with CORPORATION, COMPANY and LIMITED added to the
\* suffix set.
C23_ClassifiedByAllSuffixes ==
    C23_NameDecides =>
        result.classification =
            C23_ByTokens(C23_Tokens(mq.name),
                         C23_Suffixes \cup C23_SpelledOutSuffixes \cup C23_Keywords)

\* a name of two tokens whose only business word is a spelled-out suffix was
\* classified ENTITY
C23_Witness ==
    /\ C23_NameDecides
    /\ Len(C23_Tokens(mq.name)) = 2
    /\ AnyTokenIn(C23_Tokens(mq.name), C23_SpelledOutSuffixes)
    /\ ~AnyTokenIn(C23_Tokens(mq.name), C23_Suffixes \cup C23_Keywords)
    /\ result.classification = "ENTITY"

\* C19: normalize_zip returns the first 5 digits of its argument, and the
\* empty string when the argument holds fewer than 5 digits.
C19_ZipIsFiveDigitsOrEmpty ==
    Returned("normalize_zip")
       => LET digits == SelectSeq(mq.zip_code, IsDigit)
          IN  result.zip_code = IF Len(digits) < 5 THEN <<>> ELSE SubSeq(digits, 1, 5)

-----------------------------------------------------------------------------
(* A claim about the rows a build inserts, checked under Spec *)

NameChars == {UpperChars[i] : i \in 1..26} \cup {DigitChars[i] : i \in 1..10}

\* upper-case letters and digits in words separated by single spaces
CleanName(s) ==
    /\ \A i \in 1..Len(s) : s[i] \in NameChars \cup {" "}
    /\ s = <<>> \/ (s[1] # " " /\ s[Len(s)] # " ")
    /\ \A i \in 1..(Len(s) - 1) : ~(s[i] = " " /\ s[i + 1] = " ")

CleanPersonName(s) ==
    /\ CleanName(s)
    /\ ~AnyTokenIn(Split(s), PERSON_SUFFIXES)
    /\ remove_person_suffixes(normalize_name(s)) = s

CleanEntityName(s) ==
    /\ CleanName(s)
    /\ ~AnyTokenIn(Split(s), BUSINESS_SUFFIXES)
    /\ normalize_entity_name(s) = s

\* C18: every name a build has inserted is a fixed point of its
\* normalization, upper-cased, free of punctuation, single-spaced and free
\* of suffix tokens.
C18_StoredNamesAreClean ==
    \A p \in Procs :
        /\ \A i \in 1..Len(txn[p].oig_people) :
              /\ CleanPersonName(txn[p].oig_people[i].first)
              /\ CleanPersonName(txn[p].oig_people[i].last)
        /\ \A i \in 1..Len(txn[p].oig_entities) :
              CleanEntityName(txn[p].oig_entities[i].name)

\* C18 without the absence of punctuation: every name a build has inserted
\* is a fixed point of its normalization and holds no suffix token
C18_StoredNamesAreFixedPoints ==
    \A p \in Procs :
        /\ \A i \in 1..Len(txn[p].oig_people) :
              LET r == txn[p].oig_people[i]
              IN  /\ remove_person_suffixes(normalize_name(r.first)) = r.first
                  /\ remove_person_suffixes(normalize_name(r.last)) = r.last
                  /\ ~AnyTokenIn(Split(r.first) \o Split(r.last), PERSON_SUFFIXES)
        /\ \A i \in 1..Len(txn[p].oig_entities) :
              LET r == txn[p].oig_entities[i]
              IN  /\ normalize_entity_name(r.name) = r.name
                  /\ ~AnyTokenIn(Split(r.name), BUSINESS_SUFFIXES)

-----------------------------------------------------------------------------
(* A claim about the Source-A pass of match_person, checked under SpecMatch *)

\* the OIG loop has scanned its next row and goes on with the rows after it:
\* the row did not confirm
OigRowScanned ==
    /\ mq.kind = "person"
    /\ mpc = "oig_people" /\ rows # <<>>
    /\ mpc' = "oig_people" /\ rows' = Tail(rows)

\* the scanned row is a possible match
OigRowPossible == ratio(mq.first, Head(rows).first) >= FUZZ_POSSIBLE

\* the review item of the scanned row, as the claim words it
OigReviewCites(res, row) ==
    /\ res.review_required
    /\ res.review_source = "OIG People"
    /\ res.review_candidate_name = CandidateName(row.first, row.last)
    /\ ~Truthy(mq.dob_compact) =>
          res.review_note[1] = "High-similarity OIG name match but DOB missing in source record."
    /\ (Truthy(mq.dob_compact) /\ Truthy(row.dob_compact) /\ mq.dob_compact # row.dob_compact) =>
          res.review_note[1] = "High-similarity OIG name match but DOB does not match reference."

\* C20: every scanned row of the Source-A pass that does not confirm and has
\* first-name similarity >= 90 attaches a review item with source OIG People
\* unless one is attached already, whatever DOBs the query and the record
\* carry, and the scan goes on with the following rows.
C20_PossibleRowAttachesReview ==
    [][(OigRowScanned /\ OigRowPossible) =>
          IF result.review_required
          THEN result' = result
          ELSE OigReviewCites(result', Head(rows))]_vars

\* C20 for the rows the code attaches a review for: the query has no DOB, or
\* both DOBs are present and differ
C20_ReviewWhenDobMissingOrDiffers ==
    [][(/\ OigRowScanned
        /\ OigRowPossible
        /\ \/ ~Truthy(mq.dob_compact)
           \/ Truthy(Head(rows).dob_compact) /\ mq.dob_compact # Head(rows).dob_compact) =>
          IF result.review_required
          THEN result' = result
          ELSE OigReviewCites(result', Head(rows))]_vars

-----------------------------------------------------------------------------
(* Claims about match_entity, checked under SpecMatch *)

\* a record of the table bears the query's name
HoldsName(table, name) == \E r \in RowsOf(table) : r.name = name

\* a record of the table bears a name that is similar to the query's, not equal
HoldsSimilarName(table, name) ==
    \E r \in RowsOf(table) : r.name # name /\ ratio(name, r.name) >= ENTITY_FUZZ_STRONG

\* C21: match_entity reports CONFIRMED on Source A exactly if oig_entities
\* holds a record whose name equals the query name, and CONFIRMED on Source B
\* exactly if sam_entities holds one; a similar name does not confirm and
\* neither registry looks at the other.
C21_EntityConfirmedIffExactName ==
    EntityDone =>
        /\ result.oig_status = "CONFIRMED" <=> HoldsName(conn.oig_entities, mq.entity_name)
        /\ result.sam_status = "CONFIRMED" <=> HoldsName(conn.sam_entities, mq.entity_name)

\* Source A holds the query's name and Source B only a similar one: the
\* first confirms, the second does not
C21_Witness ==
    /\ EntityDone
    /\ result.oig_status = "CONFIRMED"
    /\ result.sam_status = "NOT FOUND"
    /\ HoldsSimilarName(conn.sam_entities, mq.entity_name)
    /\ ~HoldsName(conn.sam_entities, mq.entity_name)

\* a Source-B entity record that is similar to the query and agrees with it
\* on the state or on the zip
SamEntityHit(q, r) ==
    /\ ratio(q.entity_name, r.name) >= ENTITY_FUZZ_STRONG
    /\ StateAgrees(q, r) \/ ZipAgrees(q, r)

\* the Source-B pass scans, and it starts with no review item attached
SamScanStartsClean ==
    /\ ~HoldsName(conn.sam_entities, mq.entity_name)
    /\ \/ HoldsName(conn.oig_entities, mq.entity_name)
       \/ \A r \in RowsOf(conn.oig_entities) :
             ratio(mq.entity_name, r.name) < ENTITY_FUZZ_STRONG

\* the position of the first hit of the table
FirstSamEntityHit(table, q) ==
    CHOOSE i \in 1..Len(table) :
        /\ SamEntityHit(q, table[i])
        /\ \A j \in 1..(i - 1) : ~SamEntityHit(q, table[j])

\* C22: when the Source-B pass of match_entity finds no exact name and
\* starts with no review item, it attaches a SAM Entities item exactly if
\* some Source-B entity is similar (>= 95) and agrees on state or zip; the
\* item is that of the first such row in scan order, the similar rows
\* without an agreeing field before it having been passed over.
C22_SamEntityReviewIffCorroboratedHit ==
    (EntityDone /\ SamScanStartsClean) =>
        IF \E r \in RowsOf(conn.sam_entities) : SamEntityHit(mq, r)
        THEN LET r == conn.sam_entities[FirstSamEntityHit(conn.sam_entities, mq)]
             IN  /\ result.review_required
                 /\ result.review_source = "SAM Entities"
                 /\ result.review_candidate_name = r.name
                 /\ result.review_candidate_exclusion_date = r.exclusion_date
                 /\ result.review_needed_data = "Tax ID / exact legal name confirmation"
                 /\ result.review_note[1] =
                       IF StateAgrees(mq, r)
                       THEN "High-similarity SAM entity match with state corroboration."
                       ELSE "High-similarity SAM entity match with zip corroboration."
        ELSE ~result.review_required

\* the first Source-B row is similar and agrees on nothing, a later row is
\* the hit
C22_Witness ==
    /\ EntityDone
    /\ SamScanStartsClean
    /\ result.review_source = "SAM Entities"
    /\ Len(conn.sam_entities) >= 2
    /\ ratio(mq.entity_name, conn.sam_entities[1].name) >= ENTITY_FUZZ_STRONG
    /\ ~SamEntityHit(mq, conn.sam_entities[1])

-----------------------------------------------------------------------------
(* A claim about a build handed two readable extracts, checked under Spec *)

\* a build of a month that had no snapshot, handed two readable extracts, is over
ReadableBuildOver(p) ==
    /\ PlainBuild(call[p])
    /\ ~call[p].existed
    /\ call[p].oig.readable
    /\ call[p].sam.readable
    /\ pc[p] = "idle"

\* the number of the rows of an extract that satisfy a test
CountPeople(rs, first, last) ==
    Cardinality({i \in 1..Len(rs) : Truthy(rs[i][first]) /\ Truthy(rs[i][last])})

CountEntities(rs, name) ==
    Cardinality({i \in 1..Len(rs) : Truthy(rs[i][name])})

\* C24: a build of a month without a snapshot that is handed two readable
\* extracts returns normally, and the snapshot it committed holds one person
\* record for every source row with a first and a last name and one entity
\* record for every source row with a business name, of either extract, the
\* Source-B records with their city, state and zip.
C24_ReadableBuildCompletes ==
    \A p \in Procs :
        ReadableBuildOver(p) =>
            LET db == fs[call[p].month]
                oig == call[p].oig.rows
                sam == call[p].sam.rows
            IN  /\ outcome[p] = "ok"
                /\ db.tables /\ db.indexes
                /\ Len(db.oig_people) = CountPeople(oig, "FIRSTNAME", "LASTNAME")
                /\ Len(db.oig_entities) = CountEntities(oig, "BUSNAME")
                /\ Len(db.sam_people) = CountPeople(sam, "First", "Last")
                /\ Len(db.sam_entities) = CountEntities(sam, "Name")
                /\ db.sam_people = FlatMapSamPeople(sam)
                /\ db.sam_entities = FlatMapSamEntities(sam)

\* C24, the first half alone: the build returns normally
C24_ReadableBuildReturns ==
    \A p \in Procs : ReadableBuildOver(p) => outcome[p] = "ok"

-----------------------------------------------------------------------------
(* Claims about the Source-A pass of match_person, checked under SpecMatch *)

\* the Source-A rows of the query's last name, in scan order
OigScanned == SelectByLast(conn.oig_people, mq.last)

\* a row that confirms the query: first name equal or similar (>= 95), DOB
\* present and equal
OigRowConfirms(q, r) ==
    /\ q.first = r.first \/ ratio(q.first, r.first) >= FUZZ_STRONG
    /\ DobAgrees(q, r)

\* a row that gets a query with a DOB a review item: similar first name
\* (>= 90), a DOB on the record, and the two DOBs differ
OigRowMismatches(q, r) ==
    /\ ratio(q.first, r.first) >= FUZZ_POSSIBLE
    /\ q.dob_compact # <<>> /\ r.dob_compact # <<>>
    /\ q.dob_compact # r.dob_compact

\* the position of the first confirming row of the scan
FirstOigConfirm ==
    CHOOSE i \in 1..Len(OigScanned) :
        /\ OigRowConfirms(mq, OigScanned[i])
        /\ \A j \in 1..(i - 1) : ~OigRowConfirms(mq, OigScanned[j])

\* C25 as stated: a match_person result that is CONFIRMED on Source A
\* carries no review item.
C25_ConfirmedCarriesNoReview ==
    (PersonDone /\ result.oig_status = "CONFIRMED") => ~result.review_required

\* C25 amended: a match_person result that is CONFIRMED on Source A carries
\* a review item exactly if a row of similarity >= 90 whose DOB differs from
\* the query's was scanned before the confirming row; the item is of source
\* OIG People and cites the DOB mismatch, and neither the confirming row nor
\* any row after it attaches one.
C25_ConfirmedKeepsEarlierReview ==
    (PersonDone /\ result.oig_status = "CONFIRMED") =>
        /\ result.review_required
              <=> \E j \in 1..(FirstOigConfirm - 1) : OigRowMismatches(mq, OigScanned[j])
        /\ result.review_required =>
              /\ result.review_source = "OIG People"
              /\ result.review_note[1] =
                    "High-similarity OIG name match but DOB does not match reference."

\* a row with another DOB was scanned before the row that confirmed
C25_Witness ==
    /\ PersonDone
    /\ result.oig_status = "CONFIRMED"
    /\ result.review_required
    /\ FirstOigConfirm = 2

-----------------------------------------------------------------------------
(* Claims about the vendor dispatch, checked under SpecRun *)

Registries == {"oig_status", "sam_status"}

\* the vendor results of a classification that a run has reported, each with
\* the snapshot it was matched against
Reported(classification) ==
    UNION {{[db |-> fs[call[p].month], r |-> run[p].results.vendors[i]] :
                i \in {j \in 1..Len(run[p].results.vendors) :
                          run[p].results.vendors[j].classification = classification}} :
           p \in {q \in Procs : call[q].op = "run"}}

\* C26 as stated: for an AMBIGUOUS vendor and each registry, if the entity
\* match or the person match is CONFIRMED on the registry, so is the result
\* reported for the vendor.
C26_NoConfirmationLost ==
    \A v \in Reported("AMBIGUOUS") : \A reg \in Registries :
        (\/ ReportedEntityMatch(v.db, v.r)[reg] = "CONFIRMED"
         \/ ReportedPersonMatch(v.db, v.r)[reg] = "CONFIRMED")
           => v.r.match[reg] = "CONFIRMED"

\* C26 amended: for an AMBIGUOUS vendor and each registry, a confirmation of
\* the person match is reported, and a confirmation of the entity match is
\* reported when the person match confirms on neither registry.
C26_PersonConfirmationKept ==
    \A v \in Reported("AMBIGUOUS") : \A reg \in Registries :
        LET entity_result == ReportedEntityMatch(v.db, v.r)
            person_result == ReportedPersonMatch(v.db, v.r)
        IN  /\ person_result[reg] = "CONFIRMED" => v.r.match[reg] = "CONFIRMED"
            /\ (entity_result[reg] = "CONFIRMED" /\ ~Confirmed(person_result))
                  => v.r.match[reg] = "CONFIRMED"

\* the person match of an ambiguous vendor confirms on Source B, its entity
\* match on Source A, and the result reported is not confirmed on Source A
C26_Witness ==
    \E v \in Reported("AMBIGUOUS") :
        /\ ReportedPersonMatch(v.db, v.r).sam_status = "CONFIRMED"
        /\ ReportedEntityMatch(v.db, v.r).oig_status = "CONFIRMED"
        /\ v.r.match.sam_status = "CONFIRMED"
        /\ v.r.match.oig_status = "NOT FOUND"

-----------------------------------------------------------------------------
(* A claim about the order of the records, checked under SpecMatch *)

\* the orders in which a table may return its rows
Orders(table) ==
    {[i \in 1..Len(table) |-> table[f[i]]] : f \in Permutations(1..Len(table))}

\* what match_person returns for the query when the people tables return
\* their rows in another order
Reordered ==
    {match_person(Db(a, conn.oig_entities, b, conn.sam_entities), mq) :
        a \in Orders(conn.oig_people), b \in Orders(conn.sam_people)}

\* C27 as stated: whatever the order in which the snapshot returns the
\* records, match_person yields the same oig_status, sam_status and
\* review_required for the query.
C27_OrderDoesNotMatter ==
    PersonDone =>
        \A other \in Reordered :
            /\ other.oig_status = result.oig_status
            /\ other.sam_status = result.sam_status
            /\ other.review_required = result.review_required

\* C27 amended: the two statuses are the same in every order, and so is
\* review_required unless a Source-A row confirms the query.
C27_OrderDoesNotMatterToStatus ==
    PersonDone =>
        \A other \in Reordered :
            /\ other.oig_status = result.oig_status
            /\ other.sam_status = result.sam_status
            /\ result.oig_status # "CONFIRMED"
                  => other.review_required = result.review_required

\* the same records in another order: confirmed either way, flagged in one
\* order only
C27_Witness ==
    /\ PersonDone
    /\ result.oig_status = "CONFIRMED"
    /\ \E other \in Reordered :
          /\ other.oig_status = "CONFIRMED"
          /\ other.review_required # result.review_required

-----------------------------------------------------------------------------
(* Claims about the names the vendor loop matches, checked under SpecRun *)

\* C28: a vendor whose normalized entity name is empty (a name made of
\* business suffixes only) is reported CONFIRMED by match_entity on neither
\* registry, whatever the snapshot holds.
C28_EmptyNameNeverConfirmed ==
    \A v \in Reported("ENTITY") :
        normalize_entity_name(v.r.name) = <<>>
           => \A reg \in Registries : v.r.match[reg] # "CONFIRMED"

\* the tokens of a full name that are no person suffix, as normalized names
NonSuffixTokens(name) ==
    SelectSeq([i \in 1..Len(Split(name)) |-> normalize_name(Split(name)[i])],
              LAMBDA t : t # <<>> /\ t \notin PERSON_SUFFIXES)

\* C29, for a person vendor: when the name has two or more tokens that are no
\* person suffix, the reported match is that of match_person for its first
\* token and its final non-suffix token, neither of them empty.
C29_MatchedOnFinalNonSuffixToken ==
    \A v \in Reported("PERSON_VENDOR") :
        LET tokens == NonSuffixTokens(v.r.name)
        IN  Len(tokens) >= 2
               => /\ tokens[1] # <<>> /\ tokens[Len(tokens)] # <<>>
                  /\ v.r.match =
                        match_person(v.db, PersonQuery(tokens[1], tokens[Len(tokens)], None,
                                                       normalize_zip(v.r.zip_display)))

\* C30: a vendor classified PERSON_VENDOR is reported NOT FOUND on Source A
\* whatever the snapshot holds, and CONFIRMED on Source B only when a Source-B
\* person of its first and last name has its zip code.
C30_PersonVendorNeverOnSourceA ==
    \A v \in Reported("PERSON_VENDOR") :
        /\ v.r.match.oig_status = "NOT FOUND"
        /\ v.r.match.sam_status = "CONFIRMED"
              => \E i \in 1..Len(v.db.sam_people) :
                    /\ normalize_zip(v.r.zip_display) # <<>>
                    /\ v.db.sam_people[i].zip = normalize_zip(v.r.zip_display)
                    /\ v.db.sam_people[i].first =
                          normalize_name(FirstToken(Split(v.r.name)))

\* a person vendor whose name a Source-A person bears: a review item and no
\* confirmation
C30_Witness ==
    \E v \in Reported("PERSON_VENDOR") :
        /\ \E i \in 1..Len(v.db.oig_people) :
              /\ v.db.oig_people[i].first = normalize_name(FirstToken(Split(v.r.name)))
              /\ v.db.oig_people[i].last = normalize_name(LastToken(Split(v.r.name)))
        /\ v.r.match.oig_status = "NOT FOUND"
        /\ v.r.match.review_required

=============================================================================
